---- MODULE Spec2Model ----
(***************************************************************************)
(* TerraSatch service provider: the normalization pipeline                 *)
(* (app/utils.py, app/normalizers.py) and the request boundary around it   *)
(* (app/routes.py).                                                        *)
(*                                                                         *)
(* Python values are tagged records [t |-> tag, v |-> ...].  A Python str  *)
(* is a sequence of one-character strings, so that strip(), lower(), str() *)
(* and the parsers are computed character by character.  A dict is a       *)
(* function from key names to values.  A float is held in tenths           *)
(* ([t |-> "float", v |-> 405] is 40.5); nan, +-inf and integers beyond    *)
(* the 32-bit range (10^e) have tags of their own.                         *)
(***************************************************************************)
EXTENDS Integers, Sequences, FiniteSets, TLC

VARIABLES store, response, request, input, result, clock, answered

vars == <<store, response, request, input, result, clock, answered>>

----------------------------------------------------------------------------
(* Python values                                                           *)

None == [t |-> "null"]
PyBool(b) == [t |-> "bool", v |-> b]
PyInt(n) == [t |-> "int", v |-> n]
PyBigInt(e) == [t |-> "bigint", v |-> e]
PyFloat(tenths) == [t |-> "float", v |-> tenths]
PyBigFloat(e) == [t |-> "bigfloat", v |-> e]
PyNan == [t |-> "nan"]
PyInf(neg) == [t |-> "inf", v |-> neg]
PyStr(chars) == [t |-> "str", v |-> chars]
PyList(items) == [t |-> "list", v |-> items]
PyDict(f) == [t |-> "dict", v |-> f]

EmptyDict == [k \in {} |-> None]

\* a local name for a value: `name = expr` followed by the code F that uses it
With(val, F(_)) == F(val)

IsNone(x) == x.t = "null"
IsDict(x) == x.t = "dict"
IsNumber(x) == x.t \in {"bool", "int", "bigint", "float", "bigfloat", "nan", "inf"}
IsScalar(x) == x.t \in {"null", "bool", "int", "bigint", "float", "bigfloat", "nan", "inf", "str"}

\* bool(x)
Truthy(x) ==
  CASE x.t = "null" -> FALSE
    [] x.t = "bool" -> x.v
    [] x.t = "int" -> x.v # 0
    [] x.t = "float" -> x.v # 0
    [] x.t = "nan" -> TRUE
    [] x.t = "inf" -> TRUE
    [] x.t = "bigint" -> TRUE
    [] x.t = "bigfloat" -> TRUE
    [] x.t = "str" -> Len(x.v) > 0
    [] x.t = "list" -> Len(x.v) > 0
    [] x.t = "dict" -> DOMAIN x.v # {}

\* d.get(k) on the mapping d
Get(d, k) == IF k \in DOMAIN d THEN d[k] ELSE None

\* a or b
PyOr(a, b) == IF Truthy(a) THEN a ELSE b

\* d.get(k1) or d.get(k2) or ... over a non-empty list of keys
RECURSIVE GetFirst(_, _)
GetFirst(d, keys) ==
  IF Len(keys) = 1 THEN Get(d, keys[1])
  ELSE PyOr(Get(d, keys[1]), GetFirst(d, Tail(keys)))

----------------------------------------------------------------------------
(* Python str operations                                                   *)

Whitespace == {" ", "\t", "\n", "\r"}
Digits == <<"0", "1", "2", "3", "4", "5", "6", "7", "8", "9">>
DigitSet == {Digits[i] : i \in 1..10}
DigitVal(c) == (CHOOSE i \in 1..10 : Digits[i] = c) - 1

UpperToLower ==
  [c \in {"A", "B", "C", "D", "E", "F", "G", "H", "I", "J", "K", "L", "M",
          "N", "O", "P", "Q", "R", "S", "T", "U", "V", "W", "X", "Y", "Z"} |->
     CASE c = "A" -> "a" [] c = "B" -> "b" [] c = "C" -> "c" [] c = "D" -> "d"
       [] c = "E" -> "e" [] c = "F" -> "f" [] c = "G" -> "g" [] c = "H" -> "h"
       [] c = "I" -> "i" [] c = "J" -> "j" [] c = "K" -> "k" [] c = "L" -> "l"
       [] c = "M" -> "m" [] c = "N" -> "n" [] c = "O" -> "o" [] c = "P" -> "p"
       [] c = "Q" -> "q" [] c = "R" -> "r" [] c = "S" -> "s" [] c = "T" -> "t"
       [] c = "U" -> "u" [] c = "V" -> "v" [] c = "W" -> "w" [] c = "X" -> "x"
       [] c = "Y" -> "y" [] c = "Z" -> "z"]

\* s.lower()
Lower(s) == [i \in 1..Len(s) |-> IF s[i] \in DOMAIN UpperToLower THEN UpperToLower[s[i]] ELSE s[i]]

RECURSIVE LStrip(_)
LStrip(s) == IF s # <<>> /\ Head(s) \in Whitespace THEN LStrip(Tail(s)) ELSE s

RECURSIVE RStrip(_)
RStrip(s) == IF s # <<>> /\ s[Len(s)] \in Whitespace THEN RStrip(SubSeq(s, 1, Len(s) - 1)) ELSE s

\* s.strip()
Strip(s) == RStrip(LStrip(s))

RECURSIVE NatStr(_)
NatStr(n) == IF n < 10 THEN <<Digits[n + 1]>> ELSE NatStr(n \div 10) \o <<Digits[(n % 10) + 1]>>

IntStr(n) == IF n < 0 THEN <<"-">> \o NatStr(0 - n) ELSE NatStr(n)

\* str(x) of a float held in tenths: "40.5", "-105.0"
FloatStr(m) ==
  LET a == IF m < 0 THEN 0 - m ELSE m
  IN (IF m < 0 THEN <<"-">> ELSE <<>>) \o NatStr(a \div 10) \o <<".">> \o <<Digits[(a % 10) + 1]>>

\* "0" * n
Zeros(n) == [i \in 1..n |-> "0"]

\* the characters of a dict key, for the repr of a dict
KeyChars ==
  [k \in {"a", "lat", "lon", "name"} |->
     CASE k = "a" -> <<"a">>
       [] k = "lat" -> <<"l", "a", "t">>
       [] k = "lon" -> <<"l", "o", "n">>
       [] k = "name" -> <<"n", "a", "m", "e">>]

\* the iteration order of a dict's keys (dicts of the input domain are
\* written in this order)
KeyOrder == <<"a", "lat", "lon", "name">>

RECURSIVE JoinComma(_)
JoinComma(parts) ==
  IF parts = <<>> THEN <<>>
  ELSE IF Len(parts) = 1 THEN parts[1]
  ELSE parts[1] \o <<",", " ">> \o JoinComma(Tail(parts))

RECURSIVE SelectKeys(_, _)
SelectKeys(order, dom) ==
  IF order = <<>> THEN <<>>
  ELSE (IF Head(order) \in dom THEN <<Head(order)>> ELSE <<>>) \o SelectKeys(Tail(order), dom)

\* str(x); repr(x) differs from it only by quoting a str
RECURSIVE ToStr(_, _)
ToStr(x, quoted) ==
  CASE x.t = "null" -> <<"N", "o", "n", "e">>
    [] x.t = "bool" -> IF x.v THEN <<"T", "r", "u", "e">> ELSE <<"F", "a", "l", "s", "e">>
    [] x.t = "int" -> IntStr(x.v)
    [] x.t = "bigint" -> <<"1">> \o Zeros(x.v)
    [] x.t = "float" -> FloatStr(x.v)
    [] x.t = "bigfloat" -> IF x.v < 16 THEN <<"1">> \o Zeros(x.v) \o <<".", "0">>
                           ELSE <<"1", "e", "+">> \o NatStr(x.v)
    [] x.t = "nan" -> <<"n", "a", "n">>
    [] x.t = "inf" -> (IF x.v THEN <<"-">> ELSE <<>>) \o <<"i", "n", "f">>
    [] x.t = "str" -> IF quoted THEN <<"'">> \o x.v \o <<"'">> ELSE x.v
    [] x.t = "list" -> <<"[">> \o JoinComma([i \in 1..Len(x.v) |-> ToStr(x.v[i], TRUE)]) \o <<"]">>
    [] x.t = "dict" ->
         LET ks == SelectKeys(KeyOrder, DOMAIN x.v)
         IN <<"{">> \o JoinComma([i \in 1..Len(ks) |->
                      <<"'">> \o KeyChars[ks[i]] \o <<"'", ":", " ">> \o ToStr(x.v[ks[i]], TRUE)])
            \o <<"}">>

str(x) == ToStr(x, FALSE)

----------------------------------------------------------------------------
(* Python coercions float(x) and int(x).  A coercion either returns a      *)
(* value or raises; the caller decides which exceptions it catches.        *)

Ok(x) == [ok |-> TRUE, v |-> x]
Raise(e) == [ok |-> FALSE, exc |-> e]

AllDigits(s) == \A i \in 1..Len(s) : s[i] \in DigitSet

RECURSIVE DigitsVal(_)
DigitsVal(s) == IF s = <<>> THEN 0 ELSE DigitsVal(SubSeq(s, 1, Len(s) - 1)) * 10 + DigitVal(s[Len(s)])

IndexOf(s, c) == IF \E i \in 1..Len(s) : s[i] = c THEN CHOOSE i \in 1..Len(s) : s[i] = c /\ \A j \in 1..(i - 1) : s[j] # c ELSE 0

\* float(s) for a str: surrounding whitespace is ignored; an optional sign,
\* then nan / inf / infinity in any case, or a decimal numeral.  The decimal
\* numerals of the input domain have at most one fractional digit and no
\* exponent, which is what the tenths representation can hold.
FloatOfStr(s) ==
  With(Lower(Strip(s)), LAMBDA t :
  With(t # <<>> /\ t[1] = "-", LAMBDA neg :
  With(IF t # <<>> /\ t[1] \in {"+", "-"} THEN Tail(t) ELSE t, LAMBDA body :
  With(IndexOf(body, "."), LAMBDA dot :
  With(IF dot = 0 THEN body ELSE SubSeq(body, 1, dot - 1), LAMBDA ip :
  With(IF dot = 0 THEN <<>> ELSE SubSeq(body, dot + 1, Len(body)), LAMBDA fp :
  With(DigitsVal(ip) * 10 + (IF fp = <<>> THEN 0 ELSE DigitVal(fp[1])), LAMBDA mag :
    IF body = <<"n", "a", "n">> THEN Ok(PyNan)
    ELSE IF body \in {<<"i", "n", "f">>, <<"i", "n", "f", "i", "n", "i", "t", "y">>} THEN Ok(PyInf(neg))
    ELSE IF AllDigits(ip) /\ AllDigits(fp) /\ Len(fp) <= 1 /\ Len(ip) + Len(fp) >= 1
      THEN Ok(PyFloat(IF neg THEN 0 - mag ELSE mag))
    ELSE Raise("ValueError"))))))))

\* the largest decimal exponent of a finite double
MaxFloatExp == 308

\* float(x)
float(x) ==
  CASE x.t = "bool" -> Ok(PyFloat(IF x.v THEN 10 ELSE 0))
    [] x.t = "int" -> Ok(PyFloat(x.v * 10))
    [] x.t = "bigint" -> IF x.v > MaxFloatExp THEN Raise("OverflowError") ELSE Ok(PyBigFloat(x.v))
    [] x.t \in {"float", "bigfloat", "nan", "inf"} -> Ok(x)
    [] x.t = "str" -> FloatOfStr(x.v)
    [] OTHER -> Raise("TypeError")

\* int(s) for a str: surrounding whitespace is ignored; an optional sign and
\* at least one digit
IntOfStr(s) ==
  With(Strip(s), LAMBDA t :
  With(t # <<>> /\ t[1] = "-", LAMBDA neg :
  With(IF t # <<>> /\ t[1] \in {"+", "-"} THEN Tail(t) ELSE t, LAMBDA body :
    IF body # <<>> /\ AllDigits(body)
      THEN Ok(PyInt(IF neg THEN 0 - DigitsVal(body) ELSE DigitsVal(body)))
    ELSE Raise("ValueError"))))

\* int(x): a float is truncated toward zero
int(x) ==
  CASE x.t = "bool" -> Ok(PyInt(IF x.v THEN 1 ELSE 0))
    [] x.t \in {"int", "bigint"} -> Ok(x)
    [] x.t = "float" -> Ok(PyInt(IF x.v < 0 THEN 0 - ((0 - x.v) \div 10) ELSE x.v \div 10))
    [] x.t = "bigfloat" -> Ok(PyBigInt(x.v))
    [] x.t = "nan" -> Raise("ValueError")
    [] x.t = "inf" -> Raise("OverflowError")
    [] x.t = "str" -> IntOfStr(x.v)
    [] OTHER -> Raise("TypeError")

----------------------------------------------------------------------------
(* datetime.strptime, datetime.fromtimestamp and datetime.isoformat        *)

MatchFail == [ok |-> FALSE]

\* two-digit and one-digit value ranges of the numeric directives
Range2 == [d \in {"%m", "%d", "%H", "%M", "%S"} |->
             CASE d = "%m" -> 1..12 [] d = "%d" -> 1..31 [] d = "%H" -> 0..23
               [] d = "%M" -> 0..59 [] d = "%S" -> 0..61]
Range1 == [d \in {"%m", "%d", "%H", "%M", "%S"} |->
             CASE d = "%m" -> 1..9 [] d = "%d" -> 1..9 [] d = "%H" -> 0..9
               [] d = "%M" -> 0..9 [] d = "%S" -> 0..9]

DigitAt(s, i) == i >= 1 /\ i <= Len(s) /\ s[i] \in DigitSet

\* the number of consecutive digits of s from position i, at most max
RECURSIVE DigitRun(_, _, _)
DigitRun(s, i, max) == IF max > 0 /\ DigitAt(s, i) THEN 1 + DigitRun(s, i + 1, max - 1) ELSE 0

\* a numeric directive at position i: its value and the next position
TakeNum(s, i, d) ==
  IF d = "%Y"
    THEN IF DigitRun(s, i, 4) = 4
           THEN [ok |-> TRUE, val |-> DigitsVal(SubSeq(s, i, i + 3)), next |-> i + 4]
           ELSE MatchFail
  ELSE IF DigitRun(s, i, 2) = 2 /\ DigitsVal(SubSeq(s, i, i + 1)) \in Range2[d]
    THEN [ok |-> TRUE, val |-> DigitsVal(SubSeq(s, i, i + 1)), next |-> i + 2]
  ELSE IF DigitAt(s, i) /\ DigitVal(s[i]) \in Range1[d]
    THEN [ok |-> TRUE, val |-> DigitVal(s[i]), next |-> i + 1]
  ELSE MatchFail

\* %f: one to six digits, read as a fraction of a second, in microseconds
TakeFraction(s, i) ==
  LET n == DigitRun(s, i, 6)
  IN IF n = 0 THEN MatchFail
     ELSE [ok |-> TRUE, val |-> DigitsVal(SubSeq(s, i, i + n - 1) \o Zeros(6 - n)), next |-> i + n]

\* %z: Z, +HHMM or +HH:MM (the optional seconds of an offset are not in the
\* input domain); the offset must be less than a day
TakeZone(s, i) ==
  IF i <= Len(s) /\ s[i] = "Z"
    THEN [ok |-> TRUE, val |-> [sign |-> 1, hh |-> 0, mm |-> 0], next |-> i + 1]
  ELSE IF i <= Len(s) /\ s[i] \in {"+", "-"} /\ DigitRun(s, i + 1, 2) = 2
    THEN LET j == IF i + 3 <= Len(s) /\ s[i + 3] = ":" THEN i + 4 ELSE i + 3
             hh == DigitsVal(SubSeq(s, i + 1, i + 2))
         IN IF DigitRun(s, j, 2) = 2 /\ DigitsVal(SubSeq(s, j, j + 1)) <= 59
              THEN [ok |-> TRUE,
                    val |-> [sign |-> IF s[i] = "-" THEN 0 - 1 ELSE 1, hh |-> hh,
                             mm |-> DigitsVal(SubSeq(s, j, j + 1))],
                    next |-> j + 2]
              ELSE MatchFail
  ELSE MatchFail

RECURSIVE SkipSpace(_, _)
SkipSpace(s, i) == IF i <= Len(s) /\ s[i] \in Whitespace THEN SkipSpace(s, i + 1) ELSE i

NoFields == [Y |-> 1900, m |-> 1, d |-> 1, H |-> 0, M |-> 0, S |-> 0, f |-> 0,
             aware |-> FALSE, tz |-> [sign |-> 1, hh |-> 0, mm |-> 0]]

SetField(f, d, val) ==
  CASE d = "%Y" -> [f EXCEPT !.Y = val]
    [] d = "%m" -> [f EXCEPT !.m = val]
    [] d = "%d" -> [f EXCEPT !.d = val]
    [] d = "%H" -> [f EXCEPT !.H = val]
    [] d = "%M" -> [f EXCEPT !.M = val]
    [] d = "%S" -> [f EXCEPT !.S = val]

\* the format's regular expression against the whole of s from position i;
\* literals match in either case, a space in the format matches a run of
\* whitespace
RECURSIVE MatchFormat(_, _, _, _)
MatchFormat(s, i, fmt, f) ==
  IF fmt = <<>> THEN (IF i = Len(s) + 1 THEN [ok |-> TRUE, f |-> f] ELSE MatchFail)
  ELSE LET tok == Head(fmt) IN
    IF tok \in {"%Y", "%m", "%d", "%H", "%M", "%S"}
      THEN With(TakeNum(s, i, tok), LAMBDA r :
             IF r.ok THEN MatchFormat(s, r.next, Tail(fmt), SetField(f, tok, r.val)) ELSE MatchFail)
    ELSE IF tok = "%f"
      THEN With(TakeFraction(s, i), LAMBDA r :
             IF r.ok THEN MatchFormat(s, r.next, Tail(fmt), [f EXCEPT !.f = r.val]) ELSE MatchFail)
    ELSE IF tok = "%z"
      THEN With(TakeZone(s, i), LAMBDA r :
             IF r.ok THEN MatchFormat(s, r.next, Tail(fmt), [f EXCEPT !.aware = TRUE, !.tz = r.val])
             ELSE MatchFail)
    ELSE IF tok = " "
      THEN IF i <= Len(s) /\ s[i] \in Whitespace
             THEN MatchFormat(s, SkipSpace(s, i), Tail(fmt), f) ELSE MatchFail
    ELSE IF i <= Len(s) /\ Lower(<<s[i]>>) = Lower(<<tok>>)
      THEN MatchFormat(s, i + 1, Tail(fmt), f)
    ELSE MatchFail

IsLeap(y) == (y % 4 = 0 /\ y % 100 # 0) \/ y % 400 = 0

DaysInMonth(y, m) ==
  IF m = 2 THEN (IF IsLeap(y) THEN 29 ELSE 28)
  ELSE IF m \in {4, 6, 9, 11} THEN 30 ELSE 31

\* datetime.strptime(s, fmt): the fields, or ValueError
strptime(s, fmt) ==
  With(MatchFormat(s, 1, fmt, NoFields), LAMBDA r :
    IF r.ok /\ r.f.Y >= 1 /\ r.f.d <= DaysInMonth(r.f.Y, r.f.m) /\ r.f.S <= 59
         /\ r.f.tz.hh <= 23
      THEN Ok(r.f) ELSE Raise("ValueError"))

RECURSIVE Pad(_, _)
Pad(n, w) == IF Len(NatStr(n)) >= w THEN NatStr(n) ELSE Zeros(w - Len(NatStr(n))) \o NatStr(n)

\* dt.isoformat() of an aware datetime
isoformat(f) ==
  Pad(f.Y, 4) \o <<"-">> \o Pad(f.m, 2) \o <<"-">> \o Pad(f.d, 2) \o <<"T">>
  \o Pad(f.H, 2) \o <<":">> \o Pad(f.M, 2) \o <<":">> \o Pad(f.S, 2)
  \o (IF f.f = 0 THEN <<>> ELSE <<".">> \o Pad(f.f, 6))
  \o (IF f.tz.sign < 0 /\ (f.tz.hh # 0 \/ f.tz.mm # 0) THEN <<"-">> ELSE <<"+">>)
  \o Pad(f.tz.hh, 2) \o <<":">> \o Pad(f.tz.mm, 2)

SecondsPerDay == 86400

\* the civil date of a day number counted from 1970-01-01
CivilFromDays(days) ==
  LET z == days + 719468
      era == z \div 146097
      doe == z - era * 146097
      yoe == (doe - doe \div 1460 + doe \div 36524 - doe \div 146096) \div 365
      doy == doe - (365 * yoe + yoe \div 4 - yoe \div 100)
      mp == (5 * doy + 2) \div 153
      d == doy - (153 * mp + 2) \div 5 + 1
      m == IF mp < 10 THEN mp + 3 ELSE mp - 9
      y == yoe + era * 400 + (IF m <= 2 THEN 1 ELSE 0)
  IN [Y |-> y, m |-> m, d |-> d]

\* datetime.fromtimestamp(value, tz=timezone.utc) for a number: the fields,
\* or the exception raised for nan, infinities and instants outside the
\* years 1..9999 (every integer beyond the 32-bit range held here is one)
fromtimestamp(x) ==
  With(CASE x.t = "bool" -> (IF x.v THEN 1 ELSE 0)
         [] x.t = "int" -> x.v
         [] x.t = "float" -> x.v \div 10
         [] OTHER -> 0, LAMBDA secs :
  With(IF x.t = "float" THEN (x.v % 10) * 100000 ELSE 0, LAMBDA micro :
  With(CivilFromDays(secs \div SecondsPerDay), LAMBDA c :
  With(secs % SecondsPerDay, LAMBDA r :
    CASE x.t = "nan" -> Raise("ValueError")
      [] x.t = "inf" -> Raise("OverflowError")
      [] x.t \in {"bigint", "bigfloat"} -> Raise(IF x.v >= 19 THEN "OverflowError" ELSE "ValueError")
      [] OTHER -> Ok([Y |-> c.Y, m |-> c.m, d |-> c.d, H |-> r \div 3600, M |-> (r % 3600) \div 60,
                      S |-> r % 60, f |-> micro, aware |-> TRUE, tz |-> [sign |-> 1, hh |-> 0, mm |-> 0]])))))

----------------------------------------------------------------------------
(* app/utils.py                                                            *)

s_low == <<"l", "o", "w">>
s_moderate == <<"m", "o", "d", "e", "r", "a", "t", "e">>
s_considerable == <<"c", "o", "n", "s", "i", "d", "e", "r", "a", "b", "l", "e">>
s_high == <<"h", "i", "g", "h">>
s_extreme == <<"e", "x", "t", "r", "e", "m", "e">>
s_no_rating == <<"n", "o", " ", "r", "a", "t", "i", "n", "g">>
s_none == <<"n", "o", "n", "e">>

SEVERITY_MAP ==
  (<<"1">> :> "low") @@ (<<"2">> :> "moderate") @@ (<<"3">> :> "considerable")
  @@ (<<"4">> :> "high") @@ (<<"5">> :> "extreme")
  @@ (s_low :> "low") @@ (s_moderate :> "moderate") @@ (s_considerable :> "considerable")
  @@ (s_high :> "high") @@ (s_extreme :> "extreme")
  @@ (s_no_rating :> "unknown") @@ (s_none :> "unknown")

\* normalize_severity without the lower-casing of line 25
normalize_severity_CaseSensitive(value) ==
  IF IsNone(value) THEN "unknown"
  ELSE With(Strip(str(value)), LAMBDA normalized :
         IF normalized \in DOMAIN SEVERITY_MAP THEN SEVERITY_MAP[normalized] ELSE "unknown")

normalize_severity(value) ==
  IF IsNone(value) THEN "unknown"
  ELSE With(Lower(Strip(str(value))), LAMBDA normalized :
         IF normalized \in DOMAIN SEVERITY_MAP THEN SEVERITY_MAP[normalized] ELSE "unknown")

formats ==
  << <<"%Y", "-", "%m", "-", "%d", "T", "%H", ":", "%M", ":", "%S", "Z">>,
     <<"%Y", "-", "%m", "-", "%d", "T", "%H", ":", "%M", ":", "%S", "%z">>,
     <<"%Y", "-", "%m", "-", "%d", "T", "%H", ":", "%M", ":", "%S", ".", "%f", "%z">>,
     <<"%Y", "-", "%m", "-", "%d", "T", "%H", ":", "%M", ":", "%S", ".", "%f", "Z">>,
     <<"%Y", "-", "%m", "-", "%d", " ", "%H", ":", "%M", ":", "%S">>,
     <<"%Y", "-", "%m", "-", "%d">> >>

\* the for loop over formats, from format number k on
RECURSIVE TryFormats(_, _)
TryFormats(value, k) ==
  IF k > Len(formats) THEN None
  ELSE With(strptime(value, formats[k]), LAMBDA dt :
         IF dt.ok THEN PyStr(isoformat(dt.v)) ELSE TryFormats(value, k + 1))

parse_timestamp(value) ==
  IF IsNone(value) THEN None
  ELSE IF IsNumber(value)
    THEN With(fromtimestamp(value), LAMBDA dt : IF dt.ok THEN PyStr(isoformat(dt.v)) ELSE None)
  ELSE IF value.t = "str" THEN TryFormats(Strip(value.v), 1)
  ELSE None

safe_str(value) == IF IsNone(value) THEN <<>> ELSE Strip(str(value))

\* float(x) if x is not None else None, under except (ValueError, TypeError)
CoerceFloat(x) ==
  IF IsNone(x) THEN Ok(None)
  ELSE With(float(x), LAMBDA r :
         IF r.ok THEN r ELSE IF r.exc \in {"ValueError", "TypeError"} THEN Ok(None) ELSE r)

extract_coordinates(payload) ==
  With(GetFirst(payload, <<"lat", "latitude">>), LAMBDA lat0 :
  With(GetFirst(payload, <<"lon", "longitude">>), LAMBDA lon0 :
  With(GetFirst(payload, <<"location", "coordinates">>), LAMBDA loc :
  With(IsNone(lat0) /\ IsNone(lon0) /\ IsDict(loc), LAMBDA nested :
  With(CoerceFloat(IF nested THEN GetFirst(loc.v, <<"lat", "latitude">>) ELSE lat0), LAMBDA lat :
  With(CoerceFloat(IF nested THEN GetFirst(loc.v, <<"lon", "longitude">>) ELSE lon0), LAMBDA lon :
    IF ~lat.ok THEN lat
    ELSE IF ~lon.ok THEN lon
    ELSE Ok(<<lat.v, lon.v>>)))))))

invalid_metric_type ==
  PyStr(<<"i", "n", "v", "a", "l", "i", "d", "_", "m", "e", "t", "r", "i", "c", "_", "t", "y", "p", "e">>)

\* validate_metrics with NoneType left out of the accepted types
validate_metrics_RejectNull(metrics) ==
  LET bad == {k \in DOMAIN metrics : ~IsScalar(metrics[k]) \/ IsNone(metrics[k])}
  IN [cleaned |-> [k \in DOMAIN metrics \ bad |-> metrics[k]],
      flags |-> [i \in 1..Cardinality(bad) |-> invalid_metric_type]]

\* the for loop of validate_metrics; the flags list gets one entry per
\* rejected value
validate_metrics(metrics) ==
  LET bad == {k \in DOMAIN metrics : ~IsScalar(metrics[k])}
  IN [cleaned |-> [k \in DOMAIN metrics \ bad |-> metrics[k]],
      flags |-> [i \in 1..Cardinality(bad) |-> invalid_metric_type]]

----------------------------------------------------------------------------
(* app/normalizers.py                                                      *)

\* int(x) if x is not None else None, under except (ValueError, TypeError)
CoerceInt(x) ==
  IF IsNone(x) THEN Ok(None)
  ELSE With(int(x), LAMBDA r :
         IF r.ok THEN r ELSE IF r.exc \in {"ValueError", "TypeError"} THEN Ok(None) ELSE r)

\* safe_str(x) without the `or None`
StrOrNone_KeepEmpty(x) == PyStr(safe_str(x))

\* safe_str(x) or None
StrOrNone(x) == With(safe_str(x), LAMBDA text : IF text = <<>> THEN None ELSE PyStr(text))

build_location(payload) ==
  With(extract_coordinates(payload), LAMBDA coords :
  With(PyOr(GetFirst(payload, <<"location", "coordinates">>), PyDict(EmptyDict)), LAMBDA loc_block :
  With(IF IsDict(loc_block) THEN StrOrNone(Get(loc_block.v, "name")) ELSE None, LAMBDA name0 :
  With(IF IsDict(loc_block) THEN GetFirst(loc_block.v, <<"elevation_ft", "elevation">>) ELSE None,
       LAMBDA elev0 :
  With(PyOr(PyOr(name0, PyStr(safe_str(Get(payload, "location_name")))), None), LAMBDA loc_name :
  With(CoerceInt(IF IsNone(elev0) THEN GetFirst(payload, <<"elevation_ft", "elevation">>) ELSE elev0),
       LAMBDA elevation_ft :
    IF ~coords.ok THEN coords
    ELSE IF ~elevation_ft.ok THEN elevation_ft
    ELSE Ok([name |-> loc_name, lat |-> coords.v[1], lon |-> coords.v[2],
             elevation_ft |-> elevation_ft.v])))))))

missing_coordinates ==
  PyStr(<<"m", "i", "s", "s", "i", "n", "g", "_", "c", "o", "o", "r", "d", "i", "n", "a", "t", "e", "s">>)
missing_timestamp ==
  PyStr(<<"m", "i", "s", "s", "i", "n", "g", "_", "t", "i", "m", "e", "s", "t", "a", "m", "p">>)
unknown_severity ==
  PyStr(<<"u", "n", "k", "n", "o", "w", "n", "_", "s", "e", "v", "e", "r", "i", "t", "y">>)
empty_summary ==
  PyStr(<<"e", "m", "p", "t", "y", "_", "s", "u", "m", "m", "a", "r", "y">>)

collect_quality_flags(record) ==
  LET loc == record.location
  IN (IF IsNone(loc.lat) \/ IsNone(loc.lon) THEN <<missing_coordinates>> ELSE <<>>)
     \o (IF ~Truthy(record.event_time) THEN <<missing_timestamp>> ELSE <<>>)
     \o (IF record.severity = "unknown" THEN <<unknown_severity>> ELSE <<>>)
     \o (IF Strip(record.summary.v) = <<>> THEN <<empty_summary>> ELSE <<>>)

\* the flags left as collected, without the de-duplication of line 105
Dedupe_Keep(flags) == flags

\* list(dict.fromkeys(flags)): the first occurrence of each entry, in order
RECURSIVE Dedupe(_)
Dedupe(flags) ==
  IF flags = <<>> THEN <<>>
  ELSE With(Dedupe(SubSeq(flags, 1, Len(flags) - 1)), LAMBDA init :
         IF \E i \in 1..Len(init) : init[i] = flags[Len(flags)]
           THEN init ELSE Append(init, flags[Len(flags)]))

\* the overlay loop keeping the nested value of a key the nested mapping
\* already has
RECURSIVE Overlay_NestedWins(_, _, _)
Overlay_NestedWins(raw_metrics, payload, keys) ==
  IF keys = <<>> THEN raw_metrics
  ELSE With(Get(payload, Head(keys)), LAMBDA value :
         Overlay_NestedWins(IF IsNone(value) \/ Head(keys) \in DOMAIN raw_metrics THEN raw_metrics
                            ELSE (Head(keys) :> value) @@ raw_metrics,
                            payload, Tail(keys)))

\* for key in keys: val = payload.get(key); if val is not None: raw_metrics[key] = val
RECURSIVE Overlay(_, _, _)
Overlay(raw_metrics, payload, keys) ==
  IF keys = <<>> THEN raw_metrics
  ELSE With(Get(payload, Head(keys)), LAMBDA value :
         Overlay(IF IsNone(value) THEN raw_metrics ELSE (Head(keys) :> value) @@ raw_metrics,
                 payload, Tail(keys)))

\* `payload.get("metrics") or {}` is the payload's own mapping when that is a
\* non-empty dict, and a new dict otherwise
MetricsAliased(payload) == IsDict(Get(payload, "metrics")) /\ Truthy(Get(payload, "metrics"))

\* The body the three normalizers share; they differ in their key lists.
\* The outcome carries the payload as the call leaves it.
Normalize(record_type, sev_keys, time_keys, summary_keys, region_keys, metric_keys, payload, provider_meta) ==
  With(GetFirst(payload, sev_keys), LAMBDA raw_severity :
  With(GetFirst(payload, time_keys), LAMBDA raw_time :
  With(safe_str(PyOr(GetFirst(payload, summary_keys), PyStr(<<>>))), LAMBDA summary :
  With(StrOrNone(PyOr(GetFirst(payload, region_keys), PyStr(<<>>))), LAMBDA region :
  With(Overlay(IF MetricsAliased(payload) THEN payload["metrics"].v ELSE EmptyDict, payload, metric_keys),
       LAMBDA raw_metrics :
  With(IF MetricsAliased(payload) THEN [payload EXCEPT !["metrics"] = PyDict(raw_metrics)] ELSE payload,
       LAMBDA payload_after :
  With(validate_metrics(raw_metrics), LAMBDA validated :
  With(build_location(payload_after), LAMBDA location :
    IF ~location.ok
      THEN [raised |-> TRUE, exc |-> location.exc, message |-> [error |-> location.exc],
            payload |-> payload_after]
    ELSE
  With([provider_id |-> PyStr(safe_str(Get(provider_meta, "provider_id"))),
        provider_name |-> PyStr(safe_str(Get(provider_meta, "provider_name"))),
        record_type |-> record_type,
        region |-> region,
        location |-> location.v,
        event_time |-> parse_timestamp(raw_time),
        severity |-> normalize_severity(IF IsNone(raw_severity) THEN None
                                        ELSE PyStr(str(raw_severity))),
        metrics |-> validated.cleaned,
        summary |-> PyStr(summary)], LAMBDA record :
  With(collect_quality_flags(record) \o validated.flags, LAMBDA flags :
    [raised |-> FALSE,
     record |-> [provider_id |-> record.provider_id,
                 provider_name |-> record.provider_name,
                 record_type |-> record.record_type,
                 region |-> record.region,
                 location |-> record.location,
                 event_time |-> record.event_time,
                 severity |-> record.severity,
                 metrics |-> record.metrics,
                 summary |-> record.summary,
                 quality_flags |-> Dedupe(flags)],
     payload |-> payload_after]))))))))))

normalize_bulletin(payload, provider_meta) ==
  Normalize("bulletin",
            <<"danger", "avalanche_danger", "severity", "danger_level">>,
            <<"issued_at", "timestamp", "valid_time", "date">>,
            <<"summary", "headline", "description", "text">>,
            <<"region", "zone", "area">>,
            <<"rose", "aspects", "elevation_bands", "travel_advice">>,
            payload, provider_meta)

normalize_observation(payload, provider_meta) ==
  Normalize("observation",
            <<"severity", "danger", "hazard_level", "risk">>,
            <<"observed_at", "timestamp", "date", "time">>,
            <<"summary", "notes", "description", "observation">>,
            <<"region", "zone", "area">>,
            <<"snow_depth_cm", "new_snow_cm", "wind_speed_mph", "temperature_f", "aspect",
              "slope_angle">>,
            payload, provider_meta)

normalize_weather(payload, provider_meta) ==
  Normalize("weather",
            <<"severity", "alert_level", "warning_level">>,
            <<"recorded_at", "timestamp", "observation_time", "time", "date">>,
            <<"summary", "conditions", "description">>,
            <<"region", "zone", "station_region">>,
            <<"temperature_f", "temperature_c", "wind_speed_mph", "wind_gust_mph",
              "wind_direction", "relative_humidity", "snow_depth_cm", "new_snow_cm",
              "pressure_mb", "visibility_miles">>,
            payload, provider_meta)

NORMALIZERS == <<"bulletin", "observation", "weather">>

\* dispatch_normalizer falling back to the bulletin normalizer for a type
\* it does not know
dispatch_normalizer_Fallback(record_type, payload, provider_meta) ==
  CASE record_type = "observation" -> normalize_observation(payload, provider_meta)
    [] record_type = "weather" -> normalize_weather(payload, provider_meta)
    [] OTHER -> normalize_bulletin(payload, provider_meta)

\* dispatch_normalizer with the registry entries of observation and weather
\* exchanged
dispatch_normalizer_Swapped(record_type, payload, provider_meta) ==
  CASE record_type = "bulletin" -> normalize_bulletin(payload, provider_meta)
    [] record_type = "observation" -> normalize_weather(payload, provider_meta)
    [] record_type = "weather" -> normalize_observation(payload, provider_meta)
    [] OTHER -> [raised |-> TRUE, exc |-> "ValueError",
                 message |-> [record_type |-> record_type, supported |-> NORMALIZERS],
                 payload |-> payload]

\* dispatch_normalizer handing the normalizer provider metadata in which the
\* provider keys of the payload override the caller's
dispatch_normalizer_PayloadProvider(record_type, payload, provider_meta) ==
  With([k \in {"provider_id", "provider_name"} |-> PyOr(Get(payload, k), provider_meta[k])],
       LAMBDA meta :
    CASE record_type = "bulletin" -> normalize_bulletin(payload, meta)
      [] record_type = "observation" -> normalize_observation(payload, meta)
      [] record_type = "weather" -> normalize_weather(payload, meta)
      [] OTHER -> [raised |-> TRUE, exc |-> "ValueError",
                   message |-> [record_type |-> record_type, supported |-> NORMALIZERS],
                   payload |-> payload])

\* The outcome of a call: a fragment, or the exception raised; either way
\* with the payload as the call leaves it.
dispatch_normalizer(record_type, payload, provider_meta) ==
  CASE record_type = "bulletin" -> normalize_bulletin(payload, provider_meta)
    [] record_type = "observation" -> normalize_observation(payload, provider_meta)
    [] record_type = "weather" -> normalize_weather(payload, provider_meta)
    [] OTHER -> [raised |-> TRUE, exc |-> "ValueError",
                 message |-> [record_type |-> record_type, supported |-> NORMALIZERS],
                 payload |-> payload]

----------------------------------------------------------------------------
(* json.dumps and json.loads.  A JSON document is held as its tree of      *)
(* tokens: a number is the text of its literal, so that what comes back    *)
(* from loads is what the literal says.  The strings of the input domain   *)
(* need no escaping.                                                       *)

s_NaN == <<"N", "a", "N">>
s_Infinity == <<"I", "n", "f", "i", "n", "i", "t", "y">>

RECURSIVE json_dumps(_)
json_dumps(x) ==
  CASE x.t = "null" -> [j |-> "null"]
    [] x.t = "bool" -> [j |-> IF x.v THEN "true" ELSE "false"]
    [] x.t \in {"int", "bigint", "float", "bigfloat"} -> [j |-> "number", text |-> str(x)]
    [] x.t = "nan" -> [j |-> "number", text |-> s_NaN]
    [] x.t = "inf" -> [j |-> "number", text |-> (IF x.v THEN <<"-">> ELSE <<>>) \o s_Infinity]
    [] x.t = "str" -> [j |-> "string", text |-> x.v]
    [] x.t = "list" -> [j |-> "array", items |-> [i \in 1..Len(x.v) |-> json_dumps(x.v[i])]]
    [] x.t = "dict" -> [j |-> "object", members |-> [k \in DOMAIN x.v |-> json_dumps(x.v[k])]]

\* the largest number of digits read into a machine integer here (every int
\* below 2^31 has at most ten); a longer literal is a power of ten
MaxIntDigits == 10

\* a number literal: an integer literal gives an int, a literal with a
\* fraction or an exponent a float
NumberOfLiteral(text) ==
  LET neg == text[1] = "-"
      body == IF neg THEN Tail(text) ELSE text
      dot == IndexOf(body, ".")
      e == IndexOf(body, "e")
      ip == IF dot # 0 THEN SubSeq(body, 1, dot - 1) ELSE body
  IN IF body = s_NaN THEN PyNan
     ELSE IF body = s_Infinity THEN PyInf(neg)
     ELSE IF e # 0 THEN PyBigFloat(DigitsVal(SubSeq(body, e + 2, Len(body))))
     ELSE IF dot # 0
       THEN (IF Len(ip) > MaxIntDigits THEN PyBigFloat(Len(ip) - 1) ELSE FloatOfStr(text).v)
     ELSE IF Len(ip) > MaxIntDigits THEN PyBigInt(Len(ip) - 1)
     ELSE IntOfStr(text).v

RECURSIVE json_loads(_)
json_loads(doc) ==
  CASE doc.j = "null" -> None
    [] doc.j = "true" -> PyBool(TRUE)
    [] doc.j = "false" -> PyBool(FALSE)
    [] doc.j = "number" -> NumberOfLiteral(doc.text)
    [] doc.j = "string" -> PyStr(doc.text)
    [] doc.j = "array" -> PyList([i \in 1..Len(doc.items) |-> json_loads(doc.items[i])])
    [] doc.j = "object" -> PyDict([k \in DOMAIN doc.members |-> json_loads(doc.members[k])])

----------------------------------------------------------------------------
(* app/models.py, app/routes.py: the request boundary and the store        *)

\* str(uuid.uuid4()) for the n-th identifier drawn: distinct from every
\* other one
uuid4(n) == PyStr(<<"u">> \o NatStr(n))

\* now_iso() at clock reading now, in tenths of a second since the epoch
now_iso(now) == PyStr(isoformat(fromtimestamp(PyFloat(now)).v))

\* the properties of NormalizedRecord that decode a JSON column
RowLocation(row) == json_loads(row.location_json)
RowMetrics(row) == json_loads(row.metrics_json)
RowRawPayload(row) == json_loads(row.raw_payload_json)
RowQualityFlags(row) == json_loads(row.quality_flags_json)

record_to_schema(row) ==
  With(RowLocation(row).v, LAMBDA loc :
     [record_id |-> row.record_id,
      provider_id |-> row.provider_id,
      provider_name |-> row.provider_name,
      record_type |-> row.record_type,
      region |-> row.region,
      location |-> [name |-> Get(loc, "name"), lat |-> Get(loc, "lat"), lon |-> Get(loc, "lon"),
                    elevation_ft |-> Get(loc, "elevation_ft")],
      event_time |-> row.event_time,
      ingested_at |-> row.ingested_at,
      severity |-> row.severity,
      metrics |-> RowMetrics(row).v,
      summary |-> row.summary,
      raw_payload |-> RowRawPayload(row).v,
      quality_flags |-> RowQualityFlags(row).v])

\* _process_ingest writing the row as an upsert keyed by provider and record
\* type: the row replaces the rows of that provider and type
process_ingest_Upsert(req, db, now) ==
  With([provider_id |-> req.provider_id, provider_name |-> req.provider_name], LAMBDA provider_meta :
  With(dispatch_normalizer(req.record_type, req.payload, provider_meta), LAMBDA normalized :
    IF normalized.raised
      THEN [raised |-> TRUE, exc |-> normalized.exc, message |-> normalized.message, db |-> db]
    ELSE
  With([record_id |-> uuid4(Len(db) + 1),
        provider_id |-> normalized.record.provider_id,
        provider_name |-> normalized.record.provider_name,
        record_type |-> normalized.record.record_type,
        region |-> normalized.record.region,
        location_json |-> json_dumps(PyDict(normalized.record.location)),
        event_time |-> normalized.record.event_time,
        ingested_at |-> now_iso(now),
        severity |-> normalized.record.severity,
        metrics_json |-> json_dumps(PyDict(normalized.record.metrics)),
        summary |-> normalized.record.summary,
        raw_payload_json |-> json_dumps(PyDict(normalized.payload)),
        quality_flags_json |-> json_dumps(PyList(normalized.record.quality_flags))], LAMBDA db_record :
    [raised |-> FALSE, db_record |-> db_record, db |-> Append(SelectSeq(db, LAMBDA row : row.provider_id # db_record.provider_id \/ row.record_type # db_record.record_type), db_record)])))

\* _process_ingest on the rows db at clock reading now: the exception
\* raised, or the row added and the rows after the commit
process_ingest(req, db, now) ==
  With([provider_id |-> req.provider_id, provider_name |-> req.provider_name], LAMBDA provider_meta :
  With(dispatch_normalizer(req.record_type, req.payload, provider_meta), LAMBDA normalized :
    IF normalized.raised
      THEN [raised |-> TRUE, exc |-> normalized.exc, message |-> normalized.message, db |-> db]
    ELSE
  With([record_id |-> uuid4(Len(db) + 1),
        provider_id |-> normalized.record.provider_id,
        provider_name |-> normalized.record.provider_name,
        record_type |-> normalized.record.record_type,
        region |-> normalized.record.region,
        location_json |-> json_dumps(PyDict(normalized.record.location)),
        event_time |-> normalized.record.event_time,
        ingested_at |-> now_iso(now),
        severity |-> normalized.record.severity,
        metrics_json |-> json_dumps(PyDict(normalized.record.metrics)),
        summary |-> normalized.record.summary,
        raw_payload_json |-> json_dumps(PyDict(normalized.payload)),
        quality_flags_json |-> json_dumps(PyList(normalized.record.quality_flags))], LAMBDA db_record :
    [raised |-> FALSE, db_record |-> db_record, db |-> Append(db, db_record)])))

----------------------------------------------------------------------------
(* The inputs.  A payload of the core's input domain is put together from  *)
(* one part per concern (severity, time, summary, region, location,        *)
(* metrics): the cases of one concern, each with every combination of the  *)
(* base parts of the others.                                               *)

SeverityBase ==
  { EmptyDict,
    ("severity" :> PyStr(<<"h", "i", "g", "h">>)) }

SeverityCases ==
  { ("danger" :> PyStr(<<"3">>)),
    ("severity" :> PyStr(<<" ", "H", "i", "g", "h", " ">>)),
    ("severity" :> PyInt(5)),
    ("severity" :> PyFloat(30)),
    ("severity" :> PyStr(<<"s", "e", "v", "e", "r", "e">>)),
    ("danger" :> PyStr(<<>>)) @@ ("severity" :> PyStr(<<"l", "o", "w">>)),
    ("danger_level" :> PyInt(0)),
    ("severity" :> PyList(<<PyInt(1)>>)),
    ("hazard_level" :> PyStr(<<"m", "o", "d", "e", "r", "a", "t", "e">>)),
    ("alert_level" :> PyStr(<<"2">>)),
    ("severity" :> PyStr(<<"n", "o", "n", "e">>)),
    ("severity" :> PyBool(TRUE)),
    ("avalanche_danger" :> PyStr(<<"E", "X", "T", "R", "E", "M", "E">>)),
    ("risk" :> PyStr(<<"4">>)),
    ("warning_level" :> PyStr(<<"c", "o", "n", "s", "i", "d", "e", "r", "a", "b", "l", "e">>)),
    ("severity" :> PyStr(<<"N", "o", " ", "R", "a", "t", "i", "n", "g">>)),
    ("severity" :> None) @@ ("danger" :> PyStr(<<"1">>)),
    ("severity" :> PyInt(0)) @@ ("danger" :> PyStr(<<"l", "o", "w">>)) @@ ("alert_level" :> PyStr(<<"5">>)) }

TimeBase ==
  { EmptyDict,
    ("timestamp" :> PyStr(<<"2", "0", "2", "4", "-", "0", "1", "-", "1", "5", "T", "1", "2", ":", "0", "0", ":", "0", "0", "Z">>)) }

TimeCases ==
  { ("issued_at" :> PyStr(<<"g", "a", "r", "b", "a", "g", "e">>)) @@ ("observed_at" :> PyStr(<<"g", "a", "r", "b", "a", "g", "e">>)) @@ ("recorded_at" :> PyStr(<<"g", "a", "r", "b", "a", "g", "e">>)) @@ ("timestamp" :> PyStr(<<"2", "0", "2", "4", "-", "0", "1", "-", "1", "5">>)),
    ("issued_at" :> PyInt(0)),
    ("observed_at" :> PyInt(0)),
    ("recorded_at" :> PyInt(0)),
    ("date" :> PyInt(0)),
    ("date" :> PyBool(FALSE)),
    ("timestamp" :> PyInt(1705312800)),
    ("timestamp" :> PyBigFloat(20)),
    ("timestamp" :> PyBigInt(400)),
    ("timestamp" :> PyBigInt(12)),
    ("timestamp" :> PyNan),
    ("timestamp" :> PyInf(FALSE)),
    ("time" :> PyBool(TRUE)),
    ("timestamp" :> PyList(<<PyStr(<<"2", "0", "2", "4", "-", "0", "1", "-", "1", "5">>)>>)),
    ("timestamp" :> PyStr(<<"2", "0", "2", "4", "-", "0", "1", "-", "1", "5", " ", "1", "2", ":", "0", "0", ":", "0", "0">>)),
    ("timestamp" :> PyStr(<<"2", "0", "2", "4", "-", "0", "1", "-", "1", "5", "T", "1", "2", ":", "0", "0", ":", "0", "0", "+", "0", "5", "3", "0">>)),
    ("timestamp" :> PyStr(<<"2", "0", "2", "4", "-", "0", "1", "-", "1", "5", "T", "1", "2", ":", "0", "0", ":", "0", "0", ".", "5", "Z">>)),
    ("timestamp" :> PyStr(<<"2", "0", "2", "4", "-", "0", "1", "-", "1", "5", "T", "1", "2", ":", "0", "0", ":", "0", "0", ".", "2", "5", "-", "0", "7", ":", "0", "0">>)),
    ("timestamp" :> PyStr(<<"2", "0", "2", "4", "-", "0", "2", "-", "3", "0">>)),
    ("timestamp" :> PyFloat(0 - 1055)),
    ("valid_time" :> PyStr(<<"2", "0", "2", "4", "-", "1", "-", "5">>)),
    ("observation_time" :> PyStr(<<" ", "2", "0", "2", "3", "-", "1", "2", "-", "3", "1", "T", "2", "3", ":", "5", "9", ":", "5", "9", "z", " ">>)),
    ("timestamp" :> PyStr(<<>>)),
    ("timestamp" :> PyStr(<<"2", "0", "2", "4", "-", "0", "1", "-", "1", "5", "T", "1", "2", ":", "0", "0", ":", "0", "0">>)),
    ("timestamp" :> PyStr(<<"2", "0", "2", "4", "-", "0", "1", "-", "1", "5", "T", "2", "4", ":", "0", "0", ":", "0", "0", "Z">>)),
    ("timestamp" :> PyStr(<<>>)) @@ ("date" :> PyStr(<<"2", "0", "2", "3", "-", "0", "2", "-", "2", "8">>)) }

SummaryBase ==
  { EmptyDict,
    ("summary" :> PyStr(<<"T", "e", "s", "t">>)) }

SummaryCases ==
  { ("summary" :> PyStr(<<" ", " ">>)),
    ("summary" :> PyStr(<<>>)) @@ ("headline" :> PyStr(<<" ", "H", "i", " ">>)) @@ ("notes" :> PyStr(<<"n">>)) @@ ("conditions" :> PyStr(<<"c">>)),
    ("description" :> PyStr(<<"d">>)),
    ("text" :> PyStr(<<"t">>)),
    ("observation" :> PyStr(<<"o">>)),
    ("summary" :> PyInt(5)),
    ("summary" :> PyDict(("a" :> PyInt(1)))),
    ("summary" :> PyInt(0)) @@ ("description" :> PyStr(<<"d">>)),
    ("summary" :> PyBool(FALSE)),
    ("summary" :> PyList(<<PyStr(<<"x">>), None>>)) }

RegionBase ==
  { EmptyDict }

RegionCases ==
  { ("region" :> PyStr(<<"R">>)),
    ("region" :> PyStr(<<" ", "N", "o", "r", "t", "h", " ">>)),
    ("region" :> PyStr(<<" ", " ">>)),
    ("zone" :> PyStr(<<"Z">>)),
    ("area" :> PyStr(<<"A">>)),
    ("station_region" :> PyStr(<<"S">>)),
    ("region" :> PyInt(5)),
    ("region" :> PyInt(0)),
    ("region" :> PyStr(<<>>)) @@ ("zone" :> PyStr(<<"Z">>)) }

LocationBase ==
  { EmptyDict,
    ("lat" :> PyFloat(400)) @@ ("lon" :> PyFloat(0 - 1050)) }

LocationCases ==
  { ("lat" :> PyInt(0)) @@ ("lon" :> PyInt(0)),
    ("latitude" :> PyInt(0)) @@ ("longitude" :> PyInt(0)),
    ("lat" :> PyStr(<<"4", "0", ".", "5">>)) @@ ("lon" :> PyStr(<<" ", "-", "1", "0", "5", " ">>)),
    ("lat" :> PyStr(<<"a", "b", "c">>)) @@ ("lon" :> PyInt(1)),
    ("lat" :> PyFloat(400)),
    ("lat" :> PyFloat(400)) @@ ("location" :> PyDict(("lon" :> PyInt(0 - 105)))),
    ("location" :> PyDict(("lat" :> PyInt(40)) @@ ("lon" :> PyInt(0 - 105)) @@ ("name" :> PyStr(<<" ", "P", "e", "a", "k", " ">>)) @@ ("elevation_ft" :> PyInt(8500)))),
    ("coordinates" :> PyDict(("latitude" :> PyFloat(10)) @@ ("longitude" :> PyFloat(20)) @@ ("elevation" :> PyStr(<<"9", "0", "0", "0">>)))),
    ("location" :> PyStr(<<"s", "o", "m", "e", "w", "h", "e", "r", "e">>)) @@ ("lat" :> PyInt(1)) @@ ("lon" :> PyInt(2)),
    ("lat" :> PyBigInt(400)) @@ ("lon" :> PyInt(1)),
    ("lat" :> PyInt(1)) @@ ("lon" :> PyBigInt(400)),
    ("lat" :> PyList(<<PyInt(1)>>)) @@ ("lon" :> PyDict(EmptyDict)),
    ("lat" :> PyNan) @@ ("lon" :> PyInf(FALSE)),
    ("lat" :> PyBool(TRUE)) @@ ("lon" :> PyStr(<<"n", "a", "n">>)),
    ("lat" :> PyInt(1)) @@ ("lon" :> PyInt(2)) @@ ("elevation" :> PyInf(FALSE)),
    ("lat" :> PyInt(1)) @@ ("lon" :> PyInt(2)) @@ ("elevation" :> PyNan),
    ("lat" :> PyInt(1)) @@ ("lon" :> PyInt(2)) @@ ("elevation" :> PyInt(0)),
    ("lat" :> PyInt(1)) @@ ("lon" :> PyInt(2)) @@ ("elevation_ft" :> PyStr(<<"8", "5", "0", "0", ".", "5">>)),
    ("lat" :> PyInt(1)) @@ ("lon" :> PyInt(2)) @@ ("elevation" :> PyFloat(85007)),
    ("lat" :> PyInt(1)) @@ ("lon" :> PyInt(2)) @@ ("elevation" :> PyFloat(0 - 5)),
    ("lat" :> PyInt(1)) @@ ("lon" :> PyInt(2)) @@ ("location_name" :> PyStr(<<" ", "B", "a", "s", "e", " ">>)) @@ ("elevation_ft" :> PyInt(100)),
    ("location" :> PyDict(("elevation_ft" :> PyInt(0)) @@ ("elevation" :> PyInt(0)))) @@ ("elevation_ft" :> PyInt(500)),
    ("location" :> PyList(<<PyInt(1), PyInt(2)>>)),
    ("location" :> PyDict(("name" :> PyInt(5)) @@ ("lat" :> PyStr(<<"x">>)) @@ ("lon" :> PyInt(3)))),
    ("location" :> PyDict(EmptyDict)) @@ ("coordinates" :> PyDict(("lat" :> PyInt(7)) @@ ("lon" :> PyInt(8)) @@ ("name" :> PyStr(<<"C">>)))) @@ ("location_name" :> PyStr(<<"L">>)),
    ("location" :> PyDict(("elevation_ft" :> PyInt(0)))) @@ ("elevation_ft" :> PyInt(500)),
    ("lat" :> PyInt(1)) @@ ("lon" :> PyInt(2)) @@ ("elevation_ft" :> PyInt(0)) @@ ("elevation" :> PyInt(5)),
    ("lat" :> PyInt(0)) @@ ("lon" :> PyInt(5)),
    ("lat" :> PyInt(0)) @@ ("lon" :> PyInt(0)) @@ ("location" :> PyDict(("lat" :> PyInt(1)) @@ ("lon" :> PyInt(2)) @@ ("name" :> PyStr(<<"N">>)))) }

MetricsBase ==
  { EmptyDict,
    ("metrics" :> PyDict(("snow_depth_cm" :> PyInt(1)) @@ ("rose" :> PyInt(1)) @@ ("temperature_f" :> PyInt(1)) @@ ("custom" :> PyStr(<<"x">>)))) @@ ("snow_depth_cm" :> PyInt(2)) @@ ("rose" :> PyInt(2)) @@ ("temperature_f" :> PyInt(2)) }

MetricsCases ==
  { ("metrics" :> PyDict(("snow_depth_cm" :> PyInt(1)) @@ ("custom" :> PyStr(<<"x">>)))),
    ("metrics" :> PyDict(EmptyDict)) @@ ("snow_depth_cm" :> PyInt(2)) @@ ("rose" :> PyInt(1)) @@ ("temperature_f" :> PyFloat(180)),
    ("metrics" :> PyStr(<<"a", "b", "c">>)) @@ ("snow_depth_cm" :> PyInt(2)) @@ ("rose" :> PyInt(1)) @@ ("temperature_f" :> PyInt(1)),
    ("metrics" :> PyList(<<PyInt(1)>>)) @@ ("snow_depth_cm" :> PyInt(2)) @@ ("rose" :> PyInt(1)) @@ ("temperature_f" :> PyInt(1)),
    ("metrics" :> PyDict(("custom" :> PyList(<<PyInt(1), PyInt(2)>>)))),
    ("metrics" :> PyDict(("custom" :> PyDict(("a" :> PyInt(1)))) @@ ("other" :> PyList(<<PyInt(1)>>)) @@ ("kept" :> None))),
    ("snow_depth_cm" :> PyList(<<PyInt(1)>>)) @@ ("rose" :> PyDict(("a" :> PyInt(1)))) @@ ("temperature_f" :> PyList(<<PyInt(2)>>)),
    ("metrics" :> PyDict(("snow_depth_cm" :> PyInt(1)) @@ ("rose" :> PyInt(1)) @@ ("temperature_f" :> PyInt(1)))) @@ ("snow_depth_cm" :> PyList(<<PyInt(1)>>)) @@ ("rose" :> PyList(<<PyInt(1)>>)) @@ ("temperature_f" :> PyList(<<PyInt(1)>>)),
    ("metrics" :> PyDict(("snow_depth_cm" :> PyInt(1)) @@ ("rose" :> PyInt(1)) @@ ("temperature_f" :> PyInt(1)))) @@ ("snow_depth_cm" :> None) @@ ("rose" :> None) @@ ("temperature_f" :> None),
    ("metrics" :> PyDict(("snow_depth_cm" :> PyInt(1)) @@ ("rose" :> PyInt(1)) @@ ("temperature_f" :> PyInt(1)))) @@ ("snow_depth_cm" :> PyInt(0)) @@ ("rose" :> PyInt(0)) @@ ("temperature_f" :> PyInt(0)),
    ("metrics" :> None) @@ ("wind_gust_mph" :> PyInt(5)) @@ ("aspect" :> PyStr(<<"N">>)) @@ ("travel_advice" :> PyStr(<<"x">>)),
    ("metrics" :> PyInt(0)),
    ("metrics" :> PyDict(("custom" :> PyBool(TRUE)))) @@ ("new_snow_cm" :> PyFloat(35)) @@ ("elevation_bands" :> PyStr(<<"a", "l", "l">>)) }

SeverityValues ==
  { None,
    PyStr(<<"1">>),
    PyStr(<<"2">>),
    PyStr(<<"3">>),
    PyStr(<<"4">>),
    PyStr(<<"5">>),
    PyStr(<<"l", "o", "w">>),
    PyStr(<<"m", "o", "d", "e", "r", "a", "t", "e">>),
    PyStr(<<"c", "o", "n", "s", "i", "d", "e", "r", "a", "b", "l", "e">>),
    PyStr(<<"h", "i", "g", "h">>),
    PyStr(<<"e", "x", "t", "r", "e", "m", "e">>),
    PyStr(<<"n", "o", " ", "r", "a", "t", "i", "n", "g">>),
    PyStr(<<"n", "o", "n", "e">>),
    PyStr(<<" ", "H", "i", "g", "h", " ">>),
    PyStr(<<"E", "X", "T", "R", "E", "M", "E">>),
    PyStr(<<"\t", "L", "o", "w", "\n">>),
    PyStr(<<"N", "o", " ", "R", "a", "t", "i", "n", "g">>),
    PyStr(<<"N", "o", "n", "e">>),
    PyStr(<<"s", "e", "v", "e", "r", "e">>),
    PyStr(<<>>),
    PyStr(<<"0">>),
    PyStr(<<"6">>),
    PyStr(<<"3", ".", "0">>),
    PyStr(<<"T", "r", "u", "e">>),
    PyStr(<<"[", "1", "]">>),
    PyStr(<<"l", "o", " ", "w">>),
    PyInt(1),
    PyInt(2),
    PyInt(3),
    PyInt(4),
    PyInt(5),
    PyInt(0),
    PyInt(6),
    PyFloat(30),
    PyBool(TRUE),
    PyStr(<<" ", "5">>),
    PyStr(<<"M", "o", "d", "e", "r", "a", "t", "e", " ">>),
    PyStr(<<"C", "O", "N", "S", "I", "D", "E", "R", "A", "B", "L", "E">>),
    PyStr(<<"u", "n", "k", "n", "o", "w", "n">>),
    PyStr(<<"U", "n", "k", "n", "o", "w", "n">>) }

Merge(s, t, u, r, c, m) == s @@ t @@ u @@ r @@ c @@ m

Payloads ==
  {Merge(s, t, u, r, c, m) : s \in SeverityBase \cup SeverityCases, t \in TimeBase, u \in SummaryBase,
                             r \in RegionBase, c \in LocationBase, m \in MetricsBase}
  \cup {Merge(s, t, u, r, c, m) : s \in SeverityBase, t \in TimeBase \cup TimeCases, u \in SummaryBase,
                                  r \in RegionBase, c \in LocationBase, m \in MetricsBase}
  \cup {Merge(s, t, u, r, c, m) : s \in SeverityBase, t \in TimeBase, u \in SummaryBase \cup SummaryCases,
                                  r \in RegionBase, c \in LocationBase, m \in MetricsBase}
  \cup {Merge(s, t, u, r, c, m) : s \in SeverityBase, t \in TimeBase, u \in SummaryBase,
                                  r \in RegionBase \cup RegionCases, c \in LocationBase, m \in MetricsBase}
  \cup {Merge(s, t, u, r, c, m) : s \in SeverityBase, t \in TimeBase, u \in SummaryBase,
                                  r \in RegionBase, c \in LocationBase \cup LocationCases, m \in MetricsBase}
  \cup {Merge(s, t, u, r, c, m) : s \in SeverityBase, t \in TimeBase, u \in SummaryBase,
                                  r \in RegionBase, c \in LocationBase, m \in MetricsBase \cup MetricsCases}

RecordTypes == {"bulletin", "observation", "weather", "forecast", "Bulletin"}

CoreProvider == [provider_id |-> PyStr(<<" ", "p", "r", "o", "v", "-", "1", " ">>), provider_name |-> PyStr(<<"M", "o", "u", "n", "t", "a", "i", "n", " ", "C", "o">>)]

\* payloads that carry provider keys of their own
ProviderCases ==
  { ("provider_id" :> PyStr(<<"e", "v", "i", "l">>)) @@ ("provider_name" :> PyStr(<<"E", "v", "i", "l">>)),
    ("provider_id" :> PyInt(7)) @@ ("severity" :> PyStr(<<"h", "i", "g", "h">>)) @@ ("lat" :> PyFloat(400)) @@ ("lon" :> PyFloat(0 - 1050)),
    ("provider_name" :> PyStr(<<" ", "x", " ">>)) @@ ("metrics" :> PyDict(("provider_id" :> PyStr(<<"m">>)))),
    EmptyDict }

Providers ==
  { CoreProvider,
    [provider_id |-> PyStr(<<"p", "2">>), provider_name |-> PyStr(<<"\t", "O", "b", "s", "e", "r", "v", "e", "r", "\n">>)],
    [provider_id |-> PyStr(<<" ">>), provider_name |-> PyStr(<<>>)] }

\* what the core is called with: a request's record type, payload and
\* provider, or a value for normalize_severity
DispatchInputs ==
  {[fn |-> "dispatch",
    req |-> [provider_id |-> CoreProvider.provider_id, provider_name |-> CoreProvider.provider_name,
             record_type |-> rt, payload |-> p]] : rt \in RecordTypes, p \in Payloads}
  \cup {[fn |-> "dispatch",
         req |-> [provider_id |-> m.provider_id, provider_name |-> m.provider_name,
                  record_type |-> rt, payload |-> p]] : rt \in RecordTypes, p \in ProviderCases, m \in Providers}

SeverityInputs == {[fn |-> "normalize_severity", value |-> v] : v \in SeverityValues}

CoreInputs == DispatchInputs \cup SeverityInputs

\* the requests sent to the service
Requests ==
  { [provider_id |-> PyStr(<<"p", "1">>), provider_name |-> PyStr(<<"M", "o", "u", "n", "t", "a", "i", "n", " ", "C", "o">>), record_type |-> "bulletin",
     payload |-> ("danger" :> PyStr(<<"3">>)) @@ ("issued_at" :> PyStr(<<"2", "0", "2", "4", "-", "0", "1", "-", "0", "1", "T", "0", "0", ":", "0", "0", ":", "0", "0", "Z">>)) @@ ("summary" :> PyStr(<<"T", "e", "s", "t">>)) @@ ("lat" :> PyFloat(400)) @@ ("lon" :> PyFloat(0 - 1050))],
    [provider_id |-> PyStr(<<" ", "p", "2", " ">>), provider_name |-> PyStr(<<"O", "b", "s", "e", "r", "v", "e", "r">>), record_type |-> "observation",
     payload |-> ("metrics" :> PyDict(("snow_depth_cm" :> PyInt(1)) @@ ("custom" :> PyList(<<PyInt(1)>>)))) @@ ("snow_depth_cm" :> PyInt(2)) @@ ("severity" :> PyStr(<<"h", "i", "g", "h">>)) @@ ("observed_at" :> PyInt(0))],
    [provider_id |-> PyStr(<<"p", "1">>), provider_name |-> PyStr(<<"M", "o", "u", "n", "t", "a", "i", "n", " ", "C", "o">>), record_type |-> "forecast",
     payload |-> EmptyDict],
    [provider_id |-> PyStr(<<" ", "p", "2", " ">>), provider_name |-> PyStr(<<"O", "b", "s", "e", "r", "v", "e", "r">>), record_type |-> "observation",
     payload |-> ("lat" :> PyBigInt(400)) @@ ("lon" :> PyInt(1))] }

----------------------------------------------------------------------------
(* The state machine.  store is the normalized_records table in insertion  *)
(* order; response is the last response sent; request is the last request  *)
(* received, as submitted; clock is the wall clock in tenths of a second.  *)
(* input and result are the arguments and the outcome of a call of the     *)
(* core made directly.  answered is what the clients hold: the records the *)
(* successful ingests have been answered with, in the order of the answers. *)

MaxStore == 2
MaxBatch == 2
MaxClock == 1
MaxCoreBatch == 3

NoResponse == [status |-> 0]
NoRequest == [op |-> "none"]
NoInput == [fn |-> "none"]
NoResult == [fn |-> "none"]

Init ==
  /\ store = <<>>
  /\ response = NoResponse
  /\ request = NoRequest
  /\ input = NoInput
  /\ result = NoResult
  /\ clock = 0
  /\ answered = <<>>

\* POST /ingest
ingest(req) ==
  With(process_ingest(req, store, clock), LAMBDA r :
    /\ store' = r.db
    /\ response' = IF ~r.raised
                     THEN With(record_to_schema(r.db_record), LAMBDA schema :
                            [status |-> 200,
                             body |-> [record |-> schema, quality_flags |-> schema.quality_flags]])
                   ELSE IF r.exc = "ValueError" THEN [status |-> 422, detail |-> r.message]
                   ELSE [status |-> 500, detail |-> r.message]
    /\ answered' = IF ~r.raised THEN Append(answered, record_to_schema(r.db_record)) ELSE answered
    /\ request' = [op |-> "ingest", req |-> req]
    /\ UNCHANGED <<input, result, clock>>)

\* the loop with one transaction for the whole batch: a failing item rolls
\* back what the items before it added
RECURSIVE BatchLoop_Rollback(_, _, _, _)
BatchLoop_Rollback(records, db, now, step) ==
  IF records = <<>> THEN [db |-> db, results |-> <<>>, success_count |-> 0]
  ELSE With(BatchLoop_Rollback(SubSeq(records, 1, Len(records) - 1), db, now, step), LAMBDA init :
       With(process_ingest(records[Len(records)], init.db, now + step * (Len(records) - 1)), LAMBDA r :
         IF ~r.raised
           THEN [db |-> r.db,
                 results |-> Append(init.results,
                                    [success |-> TRUE, record |-> record_to_schema(r.db_record),
                                     error |-> None]),
                 success_count |-> init.success_count + 1]
           ELSE [db |-> db,
                 results |-> Append(init.results,
                                    [success |-> FALSE, record |-> None, error |-> r.message]),
                 success_count |-> init.success_count]))

\* the for loop of ingest_batch over the items not yet processed; step is
\* the time one item takes
RECURSIVE BatchLoop(_, _, _, _)
BatchLoop(records, db, now, step) ==
  IF records = <<>> THEN [db |-> db, results |-> <<>>, success_count |-> 0]
  ELSE With(process_ingest(Head(records), db, now), LAMBDA r :
       With(BatchLoop(Tail(records), r.db, now + step, step), LAMBDA rest :
         IF ~r.raised
           THEN [db |-> rest.db,
                 results |-> <<[success |-> TRUE, record |-> record_to_schema(r.db_record),
                                error |-> None]>> \o rest.results,
                 success_count |-> rest.success_count + 1]
           ELSE [db |-> rest.db,
                 results |-> <<[success |-> FALSE, record |-> None, error |-> r.message]>>
                             \o rest.results,
                 success_count |-> rest.success_count]))

\* POST /ingest/batch
ingest_batch(records, step) ==
  With(BatchLoop(records, store, clock, step), LAMBDA b :
    /\ store' = b.db
    /\ clock' = clock + step * Len(records)
    /\ response' = [status |-> 200,
                    body |-> [total_count |-> Len(records),
                              success_count |-> b.success_count,
                              failed_count |-> Len(records) - b.success_count,
                              results |-> b.results]]
    /\ answered' = answered \o [i \in 1..b.success_count |->
                                  SelectSeq(b.results, LAMBDA res : res.success)[i].record]
    /\ request' = [op |-> "ingest_batch", records |-> records]
    /\ UNCHANGED <<input, result>>)

\* GET /health
health ==
  /\ response' = [status |-> 200, body |-> [status |-> "ok", version |-> "1.0.0"]]
  /\ request' = [op |-> "health"]
  /\ UNCHANGED <<store, input, result, clock, answered>>

\* get_record with the filter on record_id left out of the query
get_record_Unfiltered(record_id) ==
  /\ response' = IF store = <<>> THEN [status |-> 404, detail |-> "Record not found"]
                  ELSE [status |-> 200, body |-> record_to_schema(store[1])]
  /\ request' = [op |-> "get_record", record_id |-> record_id]
  /\ UNCHANGED <<store, input, result, clock, answered>>

\* GET /records/{record_id}
get_record(record_id) ==
  LET found == {i \in 1..Len(store) : store[i].record_id = record_id}
  IN /\ response' = IF found = {} THEN [status |-> 404, detail |-> "Record not found"]
                    ELSE [status |-> 200, body |-> record_to_schema(store[CHOOSE i \in found : TRUE])]
     /\ request' = [op |-> "get_record", record_id |-> record_id]
     /\ UNCHANGED <<store, input, result, clock, answered>>

\* the code points of the characters now_iso produces
Ord(c) ==
  CASE c = "+" -> 43 [] c = "-" -> 45 [] c = "." -> 46 [] c = ":" -> 58 [] c = "T" -> 84
    [] OTHER -> 48 + (CHOOSE d \in 0..9 : Digits[d + 1] = c)

\* a < b on strings, as the database compares a String column
RECURSIVE StrLess(_, _)
StrLess(a, b) ==
  IF b = <<>> THEN FALSE
  ELSE IF a = <<>> THEN TRUE
  ELSE IF Head(a) = Head(b) THEN StrLess(Tail(a), Tail(b))
  ELSE Ord(Head(a)) < Ord(Head(b))

\* a query parameter: None when absent, else its text
Param(text) == [t |-> "str", v |-> text]

\* the rows of db the filters of list_records keep; a filter that is absent
\* or empty (`if provider_id:`) is not applied
Filtered(db, provider_id, record_type, severity) ==
  {i \in 1..Len(db) :
     /\ (IsNone(provider_id) \/ provider_id.v = <<>>) \/ db[i].provider_id = provider_id
     /\ (IsNone(record_type) \/ record_type.v = "") \/ db[i].record_type = record_type.v
     /\ (IsNone(severity) \/ severity.v = "") \/ db[i].severity = severity.v}

\* order_by(ingested_at.desc()): the orders the database may return the rows
\* in; it is free in the order of rows of equal ingested_at
OrderByIngestedAtDesc(db, rows) ==
  {order \in [1..Cardinality(rows) -> rows] :
     /\ \A i, j \in 1..Cardinality(rows) : order[i] = order[j] => i = j
     /\ \A i, j \in 1..Cardinality(rows) :
          i < j => ~StrLess(db[order[i]].ingested_at.v, db[order[j]].ingested_at.v)}

\* .limit(limit)
Limit(order, limit) == SubSeq(order, 1, IF limit < Len(order) THEN limit ELSE Len(order))

\* list_records applying only the first of its three filters
list_records_ProviderOnly(provider_id, record_type, severity, limit) ==
  \E order \in OrderByIngestedAtDesc(store, Filtered(store, provider_id, None, None)) :
    /\ response' = [status |-> 200,
                    body |-> [i \in 1..Len(Limit(order, limit)) |-> record_to_schema(store[order[i]])]]
    /\ request' = [op |-> "list_records", provider_id |-> provider_id,
                   record_type |-> record_type, severity |-> severity, limit |-> limit]
    /\ UNCHANGED <<store, input, result, clock, answered>>

\* GET /records
list_records(provider_id, record_type, severity, limit) ==
  \E order \in OrderByIngestedAtDesc(store, Filtered(store, provider_id, record_type, severity)) :
    /\ response' = [status |-> 200,
                    body |-> [i \in 1..Len(Limit(order, limit)) |-> record_to_schema(store[order[i]])]]
    /\ request' = [op |-> "list_records", provider_id |-> provider_id,
                   record_type |-> record_type, severity |-> severity, limit |-> limit]
    /\ UNCHANGED <<store, input, result, clock, answered>>

\* one line of the context summary, as the parts the f-string joins with
\* "[", "] ", " | ", " | severity=", " | coords=", " | event_time=" and " | "
context_line(r) ==
  With(RowLocation(r).v, LAMBDA loc :
    [record_type |-> r.record_type,
     provider_name |-> r.provider_name.v,
     region |-> IF Truthy(r.region) THEN r.region.v
                ELSE <<"u", "n", "k", "n", "o", "w", "n", " ", "r", "e", "g", "i", "o", "n">>,
     severity |-> r.severity,
     coords |-> IF ~IsNone(Get(loc, "lat")) /\ ~IsNone(Get(loc, "lon"))
                  THEN str(Get(loc, "lat")) \o <<",">> \o str(Get(loc, "lon"))
                ELSE <<"u", "n", "k", "n", "o", "w", "n">>,
     event_time |-> IF Truthy(r.event_time) THEN r.event_time.v
                    ELSE <<"u", "n", "k", "n", "o", "w", "n">>,
     summary |-> IF Truthy(r.summary)
                   THEN SubSeq(r.summary.v, 1, IF Len(r.summary.v) < 120 THEN Len(r.summary.v) ELSE 120)
                 ELSE <<"(", "n", "o", " ", "s", "u", "m", "m", "a", "r", "y", ")">>])

\* GET /records/context
records_context(limit) ==
  \E order \in OrderByIngestedAtDesc(store, 1..Len(store)) :
    /\ response' = [status |-> 200,
                    body |-> [count |-> Len(Limit(order, limit)),
                              context |-> [i \in 1..Len(Limit(order, limit)) |->
                                             context_line(store[order[i]])]]]
    /\ request' = [op |-> "records_context", limit |-> limit]
    /\ UNCHANGED <<store, input, result, clock, answered>>

\* time passes between requests
Tick ==
  /\ clock < MaxClock
  /\ clock' = clock + 1
  /\ UNCHANGED <<store, response, request, input, result, answered>>

Batches == UNION {[1..n -> Requests] : n \in 0..MaxBatch}

\* the store and the clock are explored up to MaxStore rows and MaxClock
Ingest == \E req \in Requests : Len(store) < MaxStore /\ ingest(req)
IngestBatch ==
  \E records \in Batches : \E step \in {0, 1} :
    /\ Len(store) + Len(records) <= MaxStore
    /\ clock + step * Len(records) <= MaxClock
    /\ ingest_batch(records, step)
Health == health
GetRecord == \E n \in 1..(Len(store) + 1) : get_record(uuid4(n))

\* the queries sent; limit is validated to 1..500 before the handler runs
\* and is 50 when left out
Query(provider_id, record_type, severity, limit) ==
  [provider_id |-> provider_id, record_type |-> record_type, severity |-> severity, limit |-> limit]

ListQueries ==
  { Query(None, None, None, 50),
    Query(None, None, None, 1),
    Query(None, None, None, 2),
    Query(Param(<<"p", "2">>), None, None, 50),
    Query(Param(<<" ", "p", "2", " ">>), None, None, 50),
    Query(Param(<<>>), None, None, 50),
    Query(None, Param("observation"), None, 1),
    Query(None, Param(""), Param("considerable"), 50),
    Query(None, None, Param(""), 2),
    Query(Param(<<"p", "1">>), Param("bulletin"), Param("considerable"), 1),
    Query(Param(<<"p", "2">>), Param("observation"), Param("considerable"), 50),
    Query(None, Param("forecast"), None, 50) }

ListRecords ==
  \E q \in ListQueries : list_records(q.provider_id, q.record_type, q.severity, q.limit)
RecordsContext == \E limit \in {1, 20} : records_context(limit)

Next == Ingest \/ IngestBatch \/ Health \/ GetRecord \/ ListRecords \/ RecordsContext \/ Tick

Spec == Init /\ [][Next]_vars

----------------------------------------------------------------------------
(* Single calls on the wide input domain: the core called directly with    *)
(* arguments drawn from the domain, the same arguments sent through        *)
(* POST /ingest to an empty store, and a batch drawn from the requests     *)
(* sent through POST /ingest/batch.                                        *)

BatchInputs ==
  {[fn |-> "ingest_batch", records |-> b] : b \in UNION {[1..n -> Requests] : n \in 0..MaxCoreBatch}}

InitCore ==
  /\ store = <<>>
  /\ response = NoResponse
  /\ request = NoRequest
  /\ input \in CoreInputs \cup BatchInputs
  /\ result = NoResult
  /\ clock = 0
  /\ answered = <<>>

Dispatch ==
  /\ input.fn = "dispatch"
  /\ result = NoResult
  /\ request = NoRequest
  /\ result' = [fn |-> "dispatch",
                out |-> dispatch_normalizer(input.req.record_type, input.req.payload,
                                            [provider_id |-> input.req.provider_id,
                                             provider_name |-> input.req.provider_name])]
  /\ UNCHANGED <<store, response, request, input, clock, answered>>

NormalizeSeverity ==
  /\ input.fn = "normalize_severity"
  /\ result = NoResult
  /\ result' = [fn |-> "normalize_severity", out |-> normalize_severity(input.value)]
  /\ UNCHANGED <<store, response, request, input, clock, answered>>

IngestInput ==
  /\ input.fn = "dispatch"
  /\ result = NoResult
  /\ request = NoRequest
  /\ ingest(input.req)

IngestBatchInput ==
  /\ input.fn = "ingest_batch"
  /\ request = NoRequest
  /\ \E step \in {0, 1} : ingest_batch(input.records, step)

NextCore == Dispatch \/ NormalizeSeverity \/ IngestInput \/ IngestBatchInput

SpecCore == InitCore /\ [][NextCore]_vars

----------------------------------------------------------------------------
(* The properties.  The tables below are the specification's (section 4.2), *)
(* written as sets; the formulas read the state left by a call.            *)

Supported == {"bulletin", "observation", "weather"}

SeverityLevels == {"low", "moderate", "considerable", "high", "extreme", "unknown"}

TimeSourceKeys(record_type) ==
  CASE record_type = "bulletin" -> {"issued_at", "timestamp", "valid_time", "date"}
    [] record_type = "observation" -> {"observed_at", "timestamp", "date", "time"}
    [] record_type = "weather" -> {"recorded_at", "timestamp", "observation_time", "time", "date"}

MetricOverlayKeys(record_type) ==
  CASE record_type = "bulletin" -> {"rose", "aspects", "elevation_bands", "travel_advice"}
    [] record_type = "observation" ->
         {"snow_depth_cm", "new_snow_cm", "wind_speed_mph", "temperature_f", "aspect", "slope_angle"}
    [] record_type = "weather" ->
         {"temperature_f", "temperature_c", "wind_speed_mph", "wind_gust_mph", "wind_direction",
          "relative_humidity", "snow_depth_cm", "new_snow_cm", "pressure_mb", "visibility_miles"}

\* the nested `metrics` mapping of a payload, empty when it is no mapping
NestedMetrics(payload) ==
  IF IsDict(Get(payload, "metrics")) THEN Get(payload, "metrics").v ELSE EmptyDict

\* the overlay keys present (non-null) at the top level of a payload
Overlaid(record_type, payload) ==
  {k \in MetricOverlayKeys(record_type) : ~IsNone(Get(payload, k))}

\* the merged raw metrics: who supplies the value of key k
MergedKeys(record_type, payload) == DOMAIN NestedMetrics(payload) \cup Overlaid(record_type, payload)
MergedValue(record_type, payload, k) ==
  IF k \in Overlaid(record_type, payload) THEN payload[k] ELSE NestedMetrics(payload)[k]

\* a call of the dispatcher has been made, and how it ended
Dispatched == input.fn = "dispatch" /\ result.fn = "dispatch"
Returned == Dispatched /\ ~result.out.raised
Fragment == result.out.record

Has(flags, flag) == \E i \in 1..Len(flags) : flags[i] = flag

\* a successful POST /ingest has just been answered
IngestedOk == request.op = "ingest" /\ response.status = 200
BatchAnswered == request.op = "ingest_batch" /\ response.status = 200

(* C1: after a successful ingest, single or batch item, the raw payload    *)
(* stored with the record is exactly the payload submitted in the request, *)
(* at every nesting level.                                                 *)
C1_RawPayloadVerbatim ==
  /\ IngestedOk =>
       /\ RowRawPayload(store[Len(store)]).v = request.req.payload
       /\ response.body.record.raw_payload = request.req.payload
  /\ BatchAnswered =>
       \A i \in 1..Len(request.records) :
         response.body.results[i].success =>
           response.body.results[i].record.raw_payload = request.records[i].payload

(* C2: a batch of N requests in which exactly one item k has an            *)
(* unsupported record type is answered failed_count = 1,                   *)
(* success_count = N - 1, total_count = N, and results[i] is the outcome   *)
(* of item i: results[k] is the only failure.                              *)
C2_BatchIsolation ==
  (BatchAnswered
   /\ Cardinality({i \in 1..Len(request.records) : request.records[i].record_type \notin Supported}) = 1)
  => LET n == Len(request.records)
         body == response.body
     IN /\ body.total_count = n
        /\ body.failed_count = 1
        /\ body.success_count = n - 1
        /\ Len(body.results) = n
        /\ \A i \in 1..n :
             /\ body.results[i].success = (request.records[i].record_type \in Supported)
             /\ body.results[i].success =>
                  /\ body.results[i].record.record_type = request.records[i].record_type
                  /\ body.results[i].record.provider_id.v = Strip(request.records[i].provider_id.v)

(* C3: dispatching a record type outside {bulletin, observation, weather}  *)
(* fails with the unsupported-record-type error carrying the offending     *)
(* type and the supported types, for every payload; no normalizer runs     *)
(* (the payload is left as it was) and no fragment is returned; POST       *)
(* /ingest answers 422 with that error and stores nothing.                 *)
C3_UnsupportedTypeFails ==
  /\ (Dispatched /\ input.req.record_type \notin Supported) =>
       /\ result.out.raised
       /\ result.out.exc = "ValueError"
       /\ result.out.message = [record_type |-> input.req.record_type,
                                supported |-> <<"bulletin", "observation", "weather">>]
       /\ "record" \notin DOMAIN result.out
       /\ result.out.payload = input.req.payload
  /\ (request.op = "ingest" /\ request.req.record_type \notin Supported) =>
       /\ response.status = 422
       /\ response.detail = [record_type |-> request.req.record_type,
                             supported |-> <<"bulletin", "observation", "weather">>]
       /\ store = <<>>

C3_Witness ==
  /\ request.op = "ingest"
  /\ request.req.record_type = "forecast"
  /\ MetricsAliased(request.req.payload)
  /\ response.status = 422

(* C4: for every supported record type and every payload, dispatch returns *)
(* a complete fragment and never raises.                                   *)
C4_DispatchNeverRaises ==
  (Dispatched /\ input.req.record_type \in Supported) => ~result.out.raised

(* C5: a normalization call leaves the payload passed in, nested mappings  *)
(* included, unchanged.                                                    *)
C5_PayloadUnchanged ==
  (Dispatched /\ input.req.record_type \in Supported) => result.out.payload = input.req.payload

\* some time candidate key of the type holds a value parse_timestamp accepts
SomeTimeKeyParses(record_type, payload) ==
  \E k \in TimeSourceKeys(record_type) \cap DOMAIN payload : ~IsNone(parse_timestamp(payload[k]))

(* C6: missing_timestamp is absent (and event_time non-null) if some time  *)
(* candidate key of the type holds a value parseTimestamp accepts, and     *)
(* present (and event_time null) if none does.                             *)
C6_MissingTimestampFlag ==
  Returned =>
    IF SomeTimeKeyParses(input.req.record_type, input.req.payload)
      THEN ~Has(Fragment.quality_flags, missing_timestamp) /\ ~IsNone(Fragment.event_time)
      ELSE Has(Fragment.quality_flags, missing_timestamp) /\ IsNone(Fragment.event_time)

\* the metric entries of the merged raw metrics that are not scalars
DroppedMetrics(record_type, payload) ==
  {k \in MergedKeys(record_type, payload) : ~IsScalar(MergedValue(record_type, payload, k))}

\* the flags whose condition holds of a fragment, in the fixed order
FlagsDue(fragment, dropped) ==
  SelectSeq(<<missing_coordinates, missing_timestamp, unknown_severity, empty_summary,
              invalid_metric_type>>,
            LAMBDA f :
              \/ f = missing_coordinates /\ (IsNone(fragment.location.lat) \/ IsNone(fragment.location.lon))
              \/ f = missing_timestamp /\ (IsNone(fragment.event_time) \/ fragment.event_time.v = <<>>)
              \/ f = unknown_severity /\ fragment.severity = "unknown"
              \/ f = empty_summary /\ (\A i \in 1..Len(fragment.summary.v) : fragment.summary.v[i] \in Whitespace)
              \/ f = invalid_metric_type /\ dropped # {})

SpecExamplePayload ==
  ("severity" :> PyStr(<<"h", "i", "g", "h">>)) @@ ("timestamp" :> PyStr(<<"2", "0", "2", "4", "-", "0", "1", "-", "1", "5", "T", "1", "2", ":", "0", "0", ":", "0", "0", "Z">>)) @@ ("summary" :> PyStr(<<"T", "e", "s", "t">>)) @@ ("lat" :> PyFloat(400)) @@ ("lon" :> PyFloat(0 - 1050))

(* C7: quality_flags is exactly the sub-list of [missing_coordinates,      *)
(* missing_timestamp, unknown_severity, empty_summary,                     *)
(* invalid_metric_type], in that order and without duplicates, whose       *)
(* condition holds; the empty payload yields the first four, a payload     *)
(* with valid coordinates, timestamp, severity and summary the empty list. *)
C7_QualityFlagsExact ==
  Returned =>
    /\ Fragment.quality_flags
         = FlagsDue(Fragment, DroppedMetrics(input.req.record_type, input.req.payload))
    /\ input.req.payload = EmptyDict =>
         Fragment.quality_flags
           = <<missing_coordinates, missing_timestamp, unknown_severity, empty_summary>>
    /\ input.req.payload = SpecExamplePayload => Fragment.quality_flags = <<>>

C7_Witness ==
  /\ Returned
  /\ Cardinality(DroppedMetrics(input.req.record_type, input.req.payload)) = 2
  /\ Fragment.quality_flags
       = <<missing_coordinates, missing_timestamp, unknown_severity, empty_summary, invalid_metric_type>>

\* the severity table of the specification, on the trimmed, lower-cased
\* string form
LevelOf(text) ==
  CASE text \in {<<"1">>, <<"l", "o", "w">>} -> "low"
    [] text \in {<<"2">>, <<"m", "o", "d", "e", "r", "a", "t", "e">>} -> "moderate"
    [] text \in {<<"3">>, <<"c", "o", "n", "s", "i", "d", "e", "r", "a", "b", "l", "e">>} -> "considerable"
    [] text \in {<<"4">>, <<"h", "i", "g", "h">>} -> "high"
    [] text \in {<<"5">>, <<"e", "x", "t", "r", "e", "m", "e">>} -> "extreme"
    [] OTHER -> "unknown"

(* C8: normalizeSeverity is total and table-driven: null gives unknown; an *)
(* input whose trimmed, lower-cased string form is 1..5 or a level name    *)
(* gives that level; everything else gives unknown; the result is one of   *)
(* the six levels, and a fragment whose severity is unknown carries        *)
(* unknown_severity.                                                       *)
C8_SeverityTable ==
  /\ (input.fn = "normalize_severity" /\ result.fn = "normalize_severity") =>
       /\ result.out \in SeverityLevels
       /\ result.out = IF IsNone(input.value) THEN "unknown"
                       ELSE LevelOf(Lower(Strip(str(input.value))))
  /\ Returned =>
       /\ Fragment.severity \in SeverityLevels
       /\ Fragment.severity = "unknown" => Has(Fragment.quality_flags, unknown_severity)

C8_Witness ==
  /\ result.fn = "normalize_severity"
  /\ input.value = PyStr(<<" ", "H", "i", "g", "h", " ">>)
  /\ result.out = "high"

(* C9: an overlay key present (non-null) at the top level wins over the    *)
(* same key of the nested `metrics` mapping; nested keys not overridden    *)
(* keep their nested value; a `metrics` value that is no mapping           *)
(* contributes nothing.                                                    *)
C9_OverlayPrecedence ==
  Returned =>
    LET rt == input.req.record_type
        payload == input.req.payload
        nested == NestedMetrics(payload)
        metrics == Fragment.metrics
    IN /\ \A k \in Overlaid(rt, payload) :
            IF IsScalar(payload[k]) THEN k \in DOMAIN metrics /\ metrics[k] = payload[k]
            ELSE k \notin DOMAIN metrics
       /\ \A k \in DOMAIN nested \ Overlaid(rt, payload) :
            IF IsScalar(nested[k]) THEN k \in DOMAIN metrics /\ metrics[k] = nested[k]
            ELSE k \notin DOMAIN metrics
       /\ DOMAIN metrics \subseteq MergedKeys(rt, payload)
       /\ ~IsDict(Get(payload, "metrics")) => DOMAIN metrics \subseteq Overlaid(rt, payload)

C9_Witness ==
  /\ Returned
  /\ input.req.record_type = "observation"
  /\ "snow_depth_cm" \in DOMAIN NestedMetrics(input.req.payload)
  /\ NestedMetrics(input.req.payload)["snow_depth_cm"] = PyInt(1)
  /\ Get(input.req.payload, "snow_depth_cm") = PyInt(2)
  /\ Fragment.metrics["snow_depth_cm"] = PyInt(2)
  /\ Fragment.metrics["custom"] = PyStr(<<"x">>)

(* C10: the fragment returned by dispatch for a supported record type has  *)
(* record_type equal to the requested type.                                *)
C10_RecordTypeRouted ==
  (Returned /\ input.req.record_type \in Supported) =>
    Fragment.record_type = input.req.record_type

C10_Witness ==
  /\ Returned
  /\ input.req.record_type = "weather"
  /\ Fragment.record_type = "weather"
  /\ Get(input.req.payload, "alert_level") = PyStr(<<"2">>)
  /\ Fragment.severity = "moderate"

(* C11: the provider_id and provider_name of a fragment are the trimmed    *)
(* string forms of the provider metadata values and depend on nothing      *)
(* else: any other payload, one with provider keys of its own included,    *)
(* normalized with the same metadata yields the same two fields; the       *)
(* record answered by POST /ingest carries them too.                       *)
C11_ProviderFromMetadata ==
  /\ Returned =>
       /\ Fragment.provider_id = PyStr(Strip(input.req.provider_id.v))
       /\ Fragment.provider_name = PyStr(Strip(input.req.provider_name.v))
       /\ \A q \in ProviderCases :
            With(dispatch_normalizer(input.req.record_type, q,
                                     [provider_id |-> input.req.provider_id,
                                      provider_name |-> input.req.provider_name]),
                 LAMBDA other :
                   /\ ~other.raised
                   /\ other.record.provider_id = Fragment.provider_id
                   /\ other.record.provider_name = Fragment.provider_name)
  /\ IngestedOk =>
       /\ response.body.record.provider_id = PyStr(Strip(request.req.provider_id.v))
       /\ response.body.record.provider_name = PyStr(Strip(request.req.provider_name.v))

C11_Witness ==
  /\ Returned
  /\ Get(input.req.payload, "provider_id") = PyStr(<<"e", "v", "i", "l">>)
  /\ Get(input.req.payload, "provider_name") = PyStr(<<"E", "v", "i", "l">>)
  /\ input.req.provider_name = PyStr(<<"\t", "O", "b", "s", "e", "r", "v", "e", "r", "\n">>)
  /\ Fragment.provider_id = PyStr(<<"p", "2">>)
  /\ Fragment.provider_name = PyStr(<<"O", "b", "s", "e", "r", "v", "e", "r">>)

\* C11 as stated: the two fields equal the metadata values themselves
C11_ProviderCopied ==
  Returned =>
    /\ Fragment.provider_id = input.req.provider_id
    /\ Fragment.provider_name = input.req.provider_name

\* the answers of successful ingests that carry the record id
AnsweredWith(record_id) == {i \in 1..Len(answered) : answered[i].record_id = record_id}

(* C12: GET /records/{id} with an id a successful ingest was answered with *)
(* returns the record of that answer, field by field (record_id, the       *)
(* normalized fields, quality_flags, ingested_at); with any other id it    *)
(* answers 404.  No two successful ingests are answered the same id.       *)
C12_GetByIdRoundTrip ==
  /\ \A i, j \in 1..Len(answered) : answered[i].record_id = answered[j].record_id => i = j
  /\ request.op = "get_record" =>
       IF AnsweredWith(request.record_id) = {}
         THEN response.status = 404
         ELSE /\ response.status = 200
              /\ \A i \in AnsweredWith(request.record_id) : response.body = answered[i]

C12_Witness ==
  /\ request.op = "get_record"
  /\ Len(answered) = 2
  /\ answered[1].record_type # answered[2].record_type
  /\ request.record_id = answered[2].record_id
  /\ response.status = 200
  /\ response.body.quality_flags = answered[2].quality_flags
  /\ response.body.ingested_at # answered[1].ingested_at

\* GET /records has just been answered
Listed == request.op = "list_records" /\ response.status = 200

\* the clock reading an ingested_at text stands for
TimeOf(ingested_at) == CHOOSE n \in 0..MaxClock : now_iso(n) = ingested_at

\* the persisted records that match the filters of the request, a filter
\* counting as supplied when its text is not empty
MatchesFilters(record) ==
  /\ (~IsNone(request.provider_id) /\ request.provider_id.v # <<>>) =>
       record.provider_id = request.provider_id
  /\ (~IsNone(request.record_type) /\ request.record_type.v # "") =>
       record.record_type = request.record_type.v
  /\ (~IsNone(request.severity) /\ request.severity.v # "") =>
       record.severity = request.severity.v

(* C13: GET /records returns only persisted records, each once, that match *)
(* every filter supplied with a non-empty value, at most `limit` of them,  *)
(* newest first by ingested_at, and leaves out no matching record that is  *)
(* newer than one it returns.                                              *)
C13_ListFilteredNewestFirst ==
  Listed =>
    With(response.body, LAMBDA body :
      /\ Len(body) <= request.limit
      /\ \E rows \in [1..Len(body) -> 1..Len(store)] :
           /\ \A i, j \in 1..Len(body) : rows[i] = rows[j] => i = j
           /\ \A i \in 1..Len(body) : body[i] = record_to_schema(store[rows[i]])
      /\ \A i \in 1..Len(body) : MatchesFilters(body[i])
      /\ \A i, j \in 1..Len(body) :
           i < j => TimeOf(body[i].ingested_at) >= TimeOf(body[j].ingested_at)
      /\ \A k \in 1..Len(store) :
           (MatchesFilters(store[k])
            /\ \A i \in 1..Len(body) : body[i].record_id # store[k].record_id)
           => \A i \in 1..Len(body) : TimeOf(store[k].ingested_at) <= TimeOf(body[i].ingested_at))

C13_Witness ==
  /\ Listed
  /\ Len(store) = 2
  /\ TimeOf(store[1].ingested_at) < TimeOf(store[2].ingested_at)
  /\ IsNone(request.provider_id) /\ IsNone(request.severity)
  /\ request.record_type = Param("observation")
  /\ request.limit = 1
  /\ store[1].record_type = "observation" /\ store[2].record_type = "observation"
  /\ Len(response.body) = 1
  /\ response.body[1].record_id = store[2].record_id

\* C13 as stated: every filter that is supplied, an empty one included, is
\* matched by every record returned
C13_EverySuppliedFilter ==
  Listed =>
    \A i \in 1..Len(response.body) :
      /\ ~IsNone(request.provider_id) => response.body[i].provider_id = request.provider_id
      /\ ~IsNone(request.record_type) => response.body[i].record_type = request.record_type.v
      /\ ~IsNone(request.severity) => response.body[i].severity = request.severity.v

\* the ordered candidate key lists of the specification (section 4.2)
SeverityCandidates(record_type) ==
  CASE record_type = "bulletin" -> <<"danger", "avalanche_danger", "severity", "danger_level">>
    [] record_type = "observation" -> <<"severity", "danger", "hazard_level", "risk">>
    [] record_type = "weather" -> <<"severity", "alert_level", "warning_level">>
TimeCandidates(record_type) ==
  CASE record_type = "bulletin" -> <<"issued_at", "timestamp", "valid_time", "date">>
    [] record_type = "observation" -> <<"observed_at", "timestamp", "date", "time">>
    [] record_type = "weather" -> <<"recorded_at", "timestamp", "observation_time", "time", "date">>
SummaryCandidates(record_type) ==
  CASE record_type = "bulletin" -> <<"summary", "headline", "description", "text">>
    [] record_type = "observation" -> <<"summary", "notes", "description", "observation">>
    [] record_type = "weather" -> <<"summary", "conditions", "description">>
RegionCandidates(record_type) ==
  CASE record_type = "bulletin" -> <<"region", "zone", "area">>
    [] record_type = "observation" -> <<"region", "zone", "area">>
    [] record_type = "weather" -> <<"region", "zone", "station_region">>

\* a payload value that is present, not null and not empty
Usable(value) ==
  /\ ~IsNone(value)
  /\ value.t \in {"str", "list"} => Len(value.v) > 0
  /\ value.t = "dict" => DOMAIN value.v # {}

\* the value of the first candidate key whose value is usable, null when
\* there is none
FirstUsable(payload, keys) ==
  IF \E i \in 1..Len(keys) : Usable(Get(payload, keys[i]))
    THEN payload[keys[CHOOSE i \in 1..Len(keys) :
                        /\ Usable(Get(payload, keys[i]))
                        /\ \A j \in 1..(i - 1) : ~Usable(Get(payload, keys[j]))]]
  ELSE None

(* C14: severity, event_time, summary and region of a fragment are derived *)
(* from the value of the first key of the type's candidate list whose      *)
(* value is present, not null and not empty; an earlier key holding 0 or   *)
(* false takes precedence over a later key.                                *)
C14_FirstUsableKeyWins ==
  Returned =>
    With(input.req.record_type, LAMBDA rt :
    With(input.req.payload, LAMBDA payload :
      /\ Fragment.severity
           = With(FirstUsable(payload, SeverityCandidates(rt)), LAMBDA raw :
               normalize_severity(IF IsNone(raw) THEN None ELSE PyStr(str(raw))))
      /\ Fragment.event_time = parse_timestamp(FirstUsable(payload, TimeCandidates(rt)))
      /\ Fragment.summary = PyStr(safe_str(FirstUsable(payload, SummaryCandidates(rt))))
      /\ Fragment.region = StrOrNone(FirstUsable(payload, RegionCandidates(rt)))))

\* the value under the first of the keys that is present and not null
FirstPresent(payload, keys) ==
  IF \E i \in 1..Len(keys) : ~IsNone(Get(payload, keys[i]))
    THEN payload[keys[CHOOSE i \in 1..Len(keys) :
                        /\ ~IsNone(Get(payload, keys[i]))
                        /\ \A j \in 1..(i - 1) : IsNone(Get(payload, keys[j]))]]
  ELSE None

\* the float a value coerces to, null when it is absent or does not coerce
AsFloat(value) ==
  IF IsNone(value) THEN None
  ELSE With(float(value), LAMBDA r : IF r.ok THEN r.v ELSE None)

(* C15: when a top-level coordinate is present, lat and lon of the         *)
(* fragment are the float coercions of the values under `lat` then         *)
(* `latitude` and under `lon` then `longitude`, null only for a value that *)
(* is absent or does not coerce: a coordinate 0 is returned as 0.0, and    *)
(* the nested mapping is not consulted.                                    *)
C15_TopLevelCoordinates ==
  Returned =>
    With(FirstPresent(input.req.payload, <<"lat", "latitude">>), LAMBDA lat :
    With(FirstPresent(input.req.payload, <<"lon", "longitude">>), LAMBDA lon :
      ~(IsNone(lat) /\ IsNone(lon)) =>
        /\ Fragment.location.lat = AsFloat(lat)
        /\ Fragment.location.lon = AsFloat(lon)))

(* C16: the metrics of a fragment are exactly the scalar entries (integer, *)
(* float, string, boolean, null) of the merged raw metrics, unchanged;     *)
(* every other entry is absent; invalid_metric_type is among the quality   *)
(* flags exactly when an entry was dropped.                                *)
C16_MetricsValidated ==
  Returned =>
    With(input.req.record_type, LAMBDA rt :
    With(input.req.payload, LAMBDA payload :
      /\ \A k \in DOMAIN Fragment.metrics :
           Fragment.metrics[k].t \in {"null", "bool", "int", "bigint", "float", "bigfloat", "nan", "inf", "str"}
      /\ DOMAIN Fragment.metrics = MergedKeys(rt, payload) \ DroppedMetrics(rt, payload)
      /\ \A k \in DOMAIN Fragment.metrics : Fragment.metrics[k] = MergedValue(rt, payload, k)
      /\ Has(Fragment.quality_flags, invalid_metric_type) <=> DroppedMetrics(rt, payload) # {}))

C16_Witness ==
  /\ Returned
  /\ NestedMetrics(input.req.payload)
       = (("custom" :> PyDict(("a" :> PyInt(1)))) @@ ("other" :> PyList(<<PyInt(1)>>)) @@ ("kept" :> None))
  /\ Fragment.metrics = ("kept" :> None)
  /\ Has(Fragment.quality_flags, invalid_metric_type)

\* the nested mapping the location is read from: `location` when that is a
\* mapping with entries, else `coordinates` when that is a mapping, else
\* the empty mapping
NestedLocation(payload) ==
  IF IsDict(Get(payload, "location")) /\ Truthy(Get(payload, "location"))
    THEN Get(payload, "location").v
  ELSE IF IsDict(Get(payload, "coordinates")) THEN Get(payload, "coordinates").v
  ELSE EmptyDict

\* the integer a value coerces to, null when it is absent or does not coerce
AsInt(value) ==
  IF IsNone(value) THEN None
  ELSE With(int(value), LAMBDA r : IF r.ok THEN r.v ELSE None)

(* C17: the name and the elevation of a fragment's location are those of   *)
(* the nested `location` (else `coordinates`) mapping when it holds them,  *)
(* and those of the top-level keys `location_name` and `elevation_ft` then *)
(* `elevation` otherwise; the elevation is the integer coercion of the     *)
(* value found, null only when none is present or it does not coerce, so   *)
(* an elevation of 0 gives 0.                                              *)
C17_LocationBuilder ==
  Returned =>
    With(NestedLocation(input.req.payload), LAMBDA nested :
    With(FirstPresent(nested, <<"elevation_ft", "elevation">>), LAMBDA inner :
    With(StrOrNone(Get(nested, "name")), LAMBDA name :
      /\ Fragment.location.elevation_ft
           = AsInt(IF IsNone(inner)
                     THEN FirstPresent(input.req.payload, <<"elevation_ft", "elevation">>)
                   ELSE inner)
      /\ Fragment.location.name
           = IF IsNone(name) THEN StrOrNone(Get(input.req.payload, "location_name")) ELSE name)))

\* a string of whitespace only, the empty string included
Blank(value) == value.t = "str" /\ \A i \in 1..Len(value.v) : value.v[i] \in Whitespace

(* C18: the region of a fragment is null or a non-empty string that        *)
(* neither starts nor ends with whitespace; it is null when no region      *)
(* candidate key holds a usable value or the first usable one is all       *)
(* whitespace.  The summary is always a string, the empty string when no   *)
(* summary candidate key holds a usable value.                             *)
C18_RegionAndSummaryShape ==
  Returned =>
    With(FirstUsable(input.req.payload, RegionCandidates(input.req.record_type)), LAMBDA raw_region :
    With(FirstUsable(input.req.payload, SummaryCandidates(input.req.record_type)), LAMBDA raw_summary :
      /\ \/ IsNone(Fragment.region)
         \/ /\ Fragment.region.t = "str"
            /\ Len(Fragment.region.v) > 0
            /\ Fragment.region.v[1] \notin Whitespace
            /\ Fragment.region.v[Len(Fragment.region.v)] \notin Whitespace
      /\ (IsNone(raw_region) \/ Blank(raw_region)) => IsNone(Fragment.region)
      /\ Fragment.summary.t = "str"
      /\ IsNone(raw_summary) => Fragment.summary.v = <<>>))

C18_Witness ==
  /\ Returned
  /\ Get(input.req.payload, "region") = PyStr(<<" ", " ">>)
  /\ IsNone(Fragment.region)
  /\ Get(input.req.payload, "summary") = None
  /\ Fragment.summary = PyStr(<<>>)

\* POST /ingest/batch is answered in this step
BatchStep ==
  /\ request'.op = "ingest_batch"
  /\ <<request, response, store>>' # <<request, response, store>>

\* the results of a batch answer that report success
Successes(body) == SelectSeq(body.results, LAMBDA res : res.success)

(* C19: a batch of N items is answered total_count = N = the number of     *)
(* results, success_count + failed_count = N, success_count = the number   *)
(* of results with success true; a result carries a record exactly when    *)
(* success is true and an error exactly when it is false; the batch adds   *)
(* success_count rows to the store, those of the successful results in     *)
(* their order, and every row there before stays: an item that succeeded   *)
(* stays persisted whatever fails after it.                                *)
C19_BatchAccounting ==
  [][BatchStep =>
       With(response'.body, LAMBDA body :
       With(Len(request'.records), LAMBDA n :
         /\ response'.status = 200
         /\ body.total_count = n
         /\ Len(body.results) = n
         /\ body.success_count + body.failed_count = n
         /\ body.success_count = Len(Successes(body))
         /\ \A i \in 1..n :
              /\ body.results[i].success <=> body.results[i].record # None
              /\ ~body.results[i].success <=> body.results[i].error # None
         /\ Len(store') = Len(store) + body.success_count
         /\ \A k \in 1..Len(store) : store'[k] = store[k]
         /\ \A j \in 1..Len(Successes(body)) :
              Successes(body)[j].record = record_to_schema(store'[Len(store) + j])))]_vars

C19_Witness ==
  /\ BatchAnswered
  /\ Len(request.records) = 2
  /\ response.body.results[1].success
  /\ ~response.body.results[2].success
  /\ response.body.success_count = 1
  /\ response.body.failed_count = 1
  /\ Len(store) = 1
  /\ store[1].record_id = response.body.results[1].record.record_id

\* the operation answered in this step
Answers(op) ==
  /\ request'.op = op
  /\ <<request, response, store>>' # <<request, response, store>>

(* C20: the store is append-only: every step leaves every row it held in   *)
(* place and unchanged; a successful POST /ingest adds exactly one row,    *)
(* the record it answers with, under an id no row had; a POST /ingest      *)
(* refused for its record type (422) changes nothing; GET /health, GET     *)
(* /records/{id}, GET /records and GET /records/context change nothing.    *)
C20_StoreAppendOnly ==
  [][/\ Len(store') >= Len(store)
     /\ \A k \in 1..Len(store) : store'[k] = store[k]
     /\ (Answers("ingest") /\ response'.status = 200) =>
          /\ Len(store') = Len(store) + 1
          /\ \A k \in 1..Len(store) : store[k].record_id # store'[Len(store')].record_id
          /\ response'.body.record = record_to_schema(store'[Len(store')])
     /\ (Answers("ingest") /\ response'.status = 422) => store' = store
     /\ request'.op \in {"health", "get_record", "list_records", "records_context"} =>
          store' = store]_vars

C20_Witness ==
  /\ IngestedOk
  /\ Len(store) = 2
  /\ store[1].provider_id = store[2].provider_id
  /\ store[1].record_type = store[2].record_type
  /\ store[1].record_id # store[2].record_id

====
